---- MODULE Spec2Model ----
(***************************************************************************)
(* rust-aec: the CCSDS 121.0-B-3 AEC decoder.  The one-shot decoder        *)
(* (decode / decode_into over a BitReader) and the streaming Decoder       *)
(* (push_input / decode over a StreamBitReader) are modelled from          *)
(* src/src/decoder.rs and src/src/bitreader.rs.                            *)
(*                                                                         *)
(* Rust values are represented as follows.                                 *)
(*   Option<T>       None is <<>>, Some(v) is <<v>>                        *)
(*   Vec<u8>, &[u8]  a sequence of numbers 0..255                          *)
(*   Result<T, E>    a field err: "ok" or the name of the AecError variant *)
(*   AecFlags        the set of the names of the flags that are set        *)
(* Sample widths stay below 31 bits in every input of the model, so the    *)
(* u32 / u64 / i64 arithmetic of the source never wraps on them.           *)
(***************************************************************************)
EXTENDS Integers, Sequences, FiniteSets, TLC

\* `let r = e;` followed by F: the value of e, computed once, is what F
\* is applied to.
Bind(e, F(_)) == F(e)

None == <<>>

Some(v) == <<v>>

is_some(o) == Len(o) > 0

Min(a, b) == IF a < b THEN a ELSE b

Max(a, b) == IF a > b THEN a ELSE b

saturating_sub(a, b) == IF a > b THEN a - b ELSE 0

\* u32::saturating_add; the sums of the model stay far below u32::MAX.
saturating_add(a, b) == a + b

\* 1 << n
Pow2(n) == 2 ^ n

\* Errors (src/src/error.rs).
OK == "ok"

UnexpectedEof == "UnexpectedEof"

UnexpectedEofDuringDecode == "UnexpectedEofDuringDecode"

InvalidInput(reason) == "InvalidInput: " \o reason

Unsupported(reason) == "Unsupported: " \o reason

\* usize::MAX, as passed for output_bytes by the streaming decoder: a limit
\* no output length of the model reaches.
USIZE_MAX == 2147483647

-----------------------------------------------------------------------------
(* Bitwise operations on two's complement integers.                        *)

RECURSIVE AndNat(_, _)
AndNat(a, b) ==
    IF a = 0 \/ b = 0 THEN 0
    ELSE 2 * AndNat(a \div 2, b \div 2) + (IF a % 2 = 1 /\ b % 2 = 1 THEN 1 ELSE 0)

RECURSIVE XorNat(_, _)
XorNat(a, b) ==
    IF a = 0 THEN b
    ELSE IF b = 0 THEN a
    ELSE 2 * XorNat(a \div 2, b \div 2) + (IF a % 2 = b % 2 THEN 0 ELSE 1)

\* !x on i64
Not64(x) == -x - 1

\* a ^ b on i64 (two's complement: a negative operand is the complement of
\* a non-negative one).
Xor64(a, b) ==
    IF a >= 0 /\ b >= 0 THEN XorNat(a, b)
    ELSE IF a < 0 /\ b < 0 THEN XorNat(Not64(a), Not64(b))
    ELSE IF a < 0 THEN Not64(XorNat(Not64(a), b))
    ELSE Not64(XorNat(a, Not64(b)))

-----------------------------------------------------------------------------
(* Parameters (src/src/params.rs) and the derived quantities.              *)

AecParams_new(bits_per_sample, block_size, rsi, flags) ==
    [bits_per_sample |-> bits_per_sample, block_size |-> block_size,
     rsi |-> rsi, flags |-> flags]

\* validate_params without the test of rsi.
validate_params_without_rsi(params) ==
    IF ~(params.bits_per_sample \in 1..32)
    THEN InvalidInput("bits_per_sample must be 1..=32")
    ELSE IF params.block_size = 0
    THEN InvalidInput("block_size must be > 0")
    ELSE IF ~(params.block_size \in {8, 16, 32, 64})
    THEN Unsupported("block_size must be one of 8,16,32,64")
    ELSE OK

validate_params(params) ==
    IF ~(params.bits_per_sample \in 1..32)
    THEN InvalidInput("bits_per_sample must be 1..=32")
    ELSE IF params.block_size = 0
    THEN InvalidInput("block_size must be > 0")
    ELSE IF params.rsi = 0
    THEN InvalidInput("rsi must be > 0")
    ELSE IF ~(params.block_size \in {8, 16, 32, 64})
    THEN Unsupported("block_size must be one of 8,16,32,64")
    ELSE OK

\* bytes_per_sample without the test of DATA_3BYTE.
bytes_per_sample_without_3byte(params) ==
    LET bps == params.bits_per_sample
    IN  IF bps \in 1..8 THEN 1
        ELSE IF bps \in 9..16 THEN 2
        ELSE 4

\* bytes_per_sample as ceil(bits_per_sample / 8).
bytes_per_sample_ceil(params) == (params.bits_per_sample + 7) \div 8

bytes_per_sample(params) ==
    LET bps == params.bits_per_sample
    IN  IF bps \in 1..8 THEN 1
        ELSE IF bps \in 9..16 THEN 2
        ELSE IF bps \in 17..24
        THEN (IF "DATA_3BYTE" \in params.flags THEN 3 ELSE 4)
        ELSE 4

\* id_len without the RESTRICTED rule.
id_len_unrestricted(params) ==
    LET bps == params.bits_per_sample
    IN  IF bps > 16 THEN 5 ELSE IF bps > 8 THEN 4 ELSE 3

id_len(params) ==
    LET bps == params.bits_per_sample
        base == IF bps > 16 THEN 5 ELSE IF bps > 8 THEN 4 ELSE 3
    IN  IF "RESTRICTED" \in params.flags /\ bps <= 4
        THEN (IF bps <= 2 THEN 1 ELSE 2)
        ELSE base

\* sign_extend leaving the raw field as it is.
sign_extend_none(raw, bits) == raw

sign_extend(raw, bits) ==
    LET r == raw % Pow2(bits)
    IN  IF r >= Pow2(bits - 1) THEN r - Pow2(bits) ELSE r

\* The triangular enumeration: sums s = 0..=12, then k = 0..=s; the pair of
\* index m is (s - k, k), and (0, 0) when m is past the table.
RECURSIVE second_extension_scan(_, _, _)
second_extension_scan(m, s, idx) ==
    IF s > 12 THEN <<0, 0>>
    ELSE IF m - idx <= s THEN <<s - (m - idx), m - idx>>
    ELSE second_extension_scan(m, s + 1, idx + s + 1)

\* second_extension_pair giving (k, s - k).
second_extension_pair_swapped(m) ==
    <<second_extension_scan(m, 0, 0)[2], second_extension_scan(m, 0, 0)[1]>>

second_extension_pair(m) == second_extension_scan(m, 0, 0)

\* `x_prev + delta` for every d: the step without the reflection at the
\* bounds of the range.
inverse_preprocess_step_unbounded(x_prev, d, params) ==
    x_prev + Xor64(d \div 2, Not64((d % 2) - 1))

inverse_preprocess_step(x_prev, d, params) ==
    Bind(Xor64(d \div 2, Not64((d % 2) - 1)), LAMBDA delta :
    LET n == params.bits_per_sample
        half_d == (d \div 2) + (d % 2)
    IN  IF "DATA_SIGNED" \in params.flags
        THEN LET signed_max == Pow2(n - 1) - 1
                 data == x_prev
             IN  IF data < 0
                 THEN (IF half_d <= signed_max + data + 1
                       THEN data + delta
                       ELSE d - signed_max - 1)
                 ELSE (IF half_d <= signed_max - data
                       THEN data + delta
                       ELSE signed_max - d)
        ELSE LET unsigned_max == Pow2(n) - 1
                 data_u == x_prev
                 med == (unsigned_max \div 2) + 1
             IN  Bind(IF AndNat(data_u, med) # 0 THEN unsigned_max ELSE 0, LAMBDA mask :
                 IF half_d <= XorNat(mask, data_u)
                 THEN x_prev + delta
                 ELSE XorNat(mask, d)))

-----------------------------------------------------------------------------
(* OutBuf and the sample writer.  A record w with the fields outb (the     *)
(* bytes written so far, OutBuf.pos = Len(outb)), cap (OutBuf.capacity())  *)
(* and err stands for an OutBuf and the Result of the writes into it.      *)

\* Byte i of mask: u64::MAX if n == 32, (1u64 << n) - 1 otherwise.
mask_byte(n, i) ==
    IF n = 32 \/ n >= 8 * (i + 1) THEN 255
    ELSE IF n <= 8 * i THEN 0
    ELSE Pow2(n - 8 * i) - 1

\* ((raw_u >> (i * 8)) & 0xff) for i, i + 1, ..: raw_u is value & mask, value
\* an i64 reinterpreted as u64, so that its byte i is that of the two's
\* complement of value, and is computed here without the 64-bit word.
RECURSIVE sample_bytes(_, _, _, _)
sample_bytes(value, n, i, count) ==
    IF count = 0 THEN <<>>
    ELSE <<AndNat((value \div Pow2(i * 8)) % 256, mask_byte(n, i))>>
         \o sample_bytes(value, n, i + 1, count - 1)

Reverse(s) == [i \in 1..Len(s) |-> s[Len(s) + 1 - i]]

\* write_sample without value.max(0) for unsigned samples.
write_sample_without_clamp(w, value, params) ==
    LET n == params.bits_per_sample
    IN  Bind(bytes_per_sample(params), LAMBDA bps :
        IF Len(w.outb) + bps > w.cap
        THEN [w EXCEPT !.err = InvalidInput("output buffer too small")]
        ELSE Bind(sample_bytes(value, n, 0, bps), LAMBDA lsb_first :
             [w EXCEPT !.outb = @ \o (IF "MSB" \in params.flags
                                      THEN Reverse(lsb_first)
                                      ELSE lsb_first)]))

write_sample(w, value, params) ==
    LET n == params.bits_per_sample
        v == IF "DATA_SIGNED" \in params.flags THEN value ELSE Max(value, 0)
    IN  Bind(bytes_per_sample(params), LAMBDA bps :
        IF Len(w.outb) + bps > w.cap
        THEN [w EXCEPT !.err = InvalidInput("output buffer too small")]
        ELSE Bind(sample_bytes(v, n, 0, bps), LAMBDA lsb_first :
             [w EXCEPT !.outb = @ \o (IF "MSB" \in params.flags
                                      THEN Reverse(lsb_first)
                                      ELSE lsb_first)]))

emit_coded_value(w, params, v, output_bytes) ==
    IF Len(w.outb) >= output_bytes THEN w
    ELSE Bind(IF "DATA_PREPROCESS" \in params.flags /\ is_some(w.predictor_x)
              THEN inverse_preprocess_step(w.predictor_x[1], v, params)
              ELSE v, LAMBDA x_next :
         IF "DATA_PREPROCESS" \in params.flags /\ ~is_some(w.predictor_x)
         THEN [w EXCEPT !.err = InvalidInput("missing reference sample")]
         ELSE Bind(write_sample(w, x_next, params), LAMBDA w1 :
              IF w1.err # OK THEN w1
              ELSE IF "DATA_PREPROCESS" \in params.flags
              THEN [w1 EXCEPT !.predictor_x = Some(x_next),
                              !.sample_index_within_rsi = @ + 1]
              ELSE [w1 EXCEPT !.sample_index_within_rsi = @ + 1]))

RECURSIVE emit_repeated_value(_, _, _, _, _)
emit_repeated_value(w, params, v, count, output_bytes) ==
    IF count = 0 \/ Len(w.outb) >= output_bytes THEN w
    ELSE Bind(emit_coded_value(w, params, v, output_bytes), LAMBDA w1 :
         IF w1.err # OK THEN w1
         ELSE emit_repeated_value(w1, params, v, count - 1, output_bytes))

-----------------------------------------------------------------------------
(* BitReader (src/src/bitreader.rs): MSB-first reads over the whole input. *)
(* A read returns [err, val, bit_pos]: the cursor stands where the read    *)
(* stopped, also when it failed.                                           *)

align_to_byte(bit_pos) ==
    LET rem == bit_pos % 8
    IN  IF rem # 0 THEN bit_pos + (8 - rem) ELSE bit_pos

RECURSIVE BitReader_read_loop(_, _, _, _)
BitReader_read_loop(data, bit_pos, nbits, out) ==
    IF nbits = 0 THEN [err |-> OK, val |-> out, bit_pos |-> bit_pos]
    ELSE LET byte_idx == bit_pos \div 8
             bit_in_byte == bit_pos % 8
         IN  IF byte_idx >= Len(data)
             THEN [err |-> UnexpectedEof, val |-> 0, bit_pos |-> bit_pos]
             ELSE LET bit == (data[byte_idx + 1] \div Pow2(7 - bit_in_byte)) % 2
                  IN  BitReader_read_loop(data, bit_pos + 1, nbits - 1, out * 2 + bit)

BitReader_read_bits_u32(data, bit_pos, nbits) ==
    IF nbits = 0 THEN [err |-> OK, val |-> 0, bit_pos |-> bit_pos]
    ELSE IF nbits > 32
    THEN [err |-> InvalidInput("read_bits_u32 supports up to 32 bits"),
          val |-> 0, bit_pos |-> bit_pos]
    ELSE BitReader_read_loop(data, bit_pos, nbits, 0)

BitReader_read_bit(data, bit_pos) == BitReader_read_bits_u32(data, bit_pos, 1)

UNARY_LIMIT == 1000000

\* The loop of read_unary and read_unary_stream over the bits of data from
\* bit_pos, each read by read_bit: it returns at the first 1 bit with the
\* number of 0 bits before it, fails once it has counted more than
\* UNARY_LIMIT 0 bits, and fails where the bits end.
unary_scan(data, bit_pos) ==
    LET end == 8 * Len(data)
        ones == {p \in bit_pos..(end - 1) :
                    BitReader_read_bit(data, p).val # 0}
    IN  Bind(IF ones = {} THEN end
             ELSE CHOOSE p \in ones : \A q \in ones : p <= q, LAMBDA first :
        IF first - bit_pos > UNARY_LIMIT
        THEN [err |-> InvalidInput("unary run too long"), val |-> 0,
              bit_pos |-> bit_pos + UNARY_LIMIT + 1]
        ELSE IF first = end
        THEN [err |-> UnexpectedEof, val |-> 0, bit_pos |-> end]
        ELSE [err |-> OK, val |-> first - bit_pos, bit_pos |-> first + 1])

read_unary(data, bit_pos) == unary_scan(data, bit_pos)

\* u32::checked_shl: None only for a shift of 32 bits or more; the bits
\* shifted out of the 32-bit word are dropped.
checked_shl(q, k) ==
    IF k >= 32 THEN None
    ELSE Some((IF k <= 1 THEN q ELSE q % Pow2(32 - k)) * Pow2(k))

\* The zero-block run length of unary symbol fs read at block index b.
ROS == 5

zero_run_blocks(fs, b, rsi) ==
    LET z_blocks == fs + 1
    IN  IF z_blocks = ROS
        THEN Min(saturating_sub(rsi, b), saturating_sub(64, b % 64))
        ELSE IF z_blocks > ROS THEN saturating_sub(z_blocks, 1)
        ELSE z_blocks

-----------------------------------------------------------------------------
(* The one-shot decoder: decode_into's loop over a record w of its locals  *)
(*   err, data, bit_pos (the BitReader r), outb, cap (the OutBuf out),     *)
(*   predictor_x, sample_index_within_rsi, block_index_within_rsi.         *)

\* Err(UnexpectedEof { bit_pos }) => Err(UnexpectedEofDuringDecode { .. })
during_decode(err) == IF err = UnexpectedEof THEN UnexpectedEofDuringDecode ELSE err

\* The closure consume_reference of decode_into.
consume_reference(w, params) ==
    Bind(BitReader_read_bits_u32(w.data, w.bit_pos, params.bits_per_sample), LAMBDA r :
    LET w1 == [w EXCEPT !.bit_pos = r.bit_pos]
        ref_val == IF "DATA_SIGNED" \in params.flags
                   THEN sign_extend(r.val, params.bits_per_sample)
                   ELSE r.val
    IN  IF r.err # OK THEN [w1 EXCEPT !.err = during_decode(r.err)]
        ELSE Bind(write_sample(w1, ref_val, params), LAMBDA w2 :
             IF w2.err # OK THEN w2
             ELSE [w2 EXCEPT !.predictor_x = Some(ref_val),
                             !.sample_index_within_rsi = @ + 1]))

RECURSIVE emit_second_extension(_, _, _, _, _)
emit_second_extension(w, params, remaining_in_block, need_odd_first, output_bytes) ==
    IF ~(remaining_in_block > 0 /\ Len(w.outb) < output_bytes) THEN w
    ELSE Bind(read_unary(w.data, w.bit_pos), LAMBDA r :
         LET w1 == [w EXCEPT !.bit_pos = r.bit_pos]
             rem1 == saturating_sub(remaining_in_block, 1)
         IN  IF r.err # OK THEN [w1 EXCEPT !.err = r.err]
             ELSE IF r.val > 90
             THEN [w1 EXCEPT !.err = InvalidInput("Second Extension unary symbol too large")]
             ELSE Bind(second_extension_pair(r.val), LAMBDA ab :
                  Bind(emit_coded_value(w1, params, IF need_odd_first THEN ab[2] ELSE ab[1],
                                        output_bytes), LAMBDA w2 :
                  IF w2.err # OK THEN w2
                  ELSE IF need_odd_first
                  THEN emit_second_extension(w2, params, rem1, FALSE, output_bytes)
                  ELSE IF rem1 = 0 \/ Len(w2.outb) >= output_bytes THEN w2
                  ELSE Bind(emit_coded_value(w2, params, ab[2], output_bytes), LAMBDA w3 :
                       IF w3.err # OK THEN w3
                       ELSE emit_second_extension(w3, params, saturating_sub(rem1, 1),
                                                  FALSE, output_bytes)))))

\* for _ in 0..remaining_in_block of the Uncompressed option.
RECURSIVE decode_into_uncompressed(_, _, _, _)
decode_into_uncompressed(w, params, count, output_bytes) ==
    IF count = 0 THEN w
    ELSE Bind(BitReader_read_bits_u32(w.data, w.bit_pos, params.bits_per_sample), LAMBDA r :
         LET w1 == [w EXCEPT !.bit_pos = r.bit_pos]
         IN  IF r.err # OK THEN [w1 EXCEPT !.err = during_decode(r.err)]
             ELSE Bind(emit_coded_value(w1, params, r.val, output_bytes), LAMBDA w2 :
                  IF w2.err # OK THEN w2
                  ELSE IF Len(w2.outb) >= output_bytes THEN w2
                  ELSE decode_into_uncompressed(w2, params, count - 1, output_bytes)))

\* The first pass of a Rice split block: count unary quotients, each shifted
\* by k.  Returns [err, bit_pos, tmp].
RECURSIVE rice_quotients(_, _, _, _, _)
rice_quotients(read, bit_pos, count, k, tmp) ==
    IF count = 0 THEN [err |-> OK, bit_pos |-> bit_pos, tmp |-> tmp]
    ELSE Bind(read_unary(read, bit_pos), LAMBDA r :
         IF r.err # OK THEN [err |-> r.err, bit_pos |-> r.bit_pos, tmp |-> tmp]
         ELSE Bind(checked_shl(r.val, k), LAMBDA sh :
              IF ~is_some(sh)
              THEN [err |-> InvalidInput("rice shift overflow"),
                    bit_pos |-> r.bit_pos, tmp |-> tmp]
              ELSE rice_quotients(read, r.bit_pos, count - 1, k, Append(tmp, sh[1]))))

\* The second pass: one k-bit remainder per quotient, tmp[i] |= rem (the low
\* k bits of tmp[i] are zero after the shift, so the OR is a sum).
RECURSIVE rice_remainders(_, _, _, _, _)
rice_remainders(read, bit_pos, i, k, tmp) ==
    IF i > Len(tmp) THEN [err |-> OK, bit_pos |-> bit_pos, tmp |-> tmp]
    ELSE Bind(BitReader_read_bits_u32(read, bit_pos, k), LAMBDA r :
         IF r.err # OK THEN [err |-> r.err, bit_pos |-> r.bit_pos, tmp |-> tmp]
         ELSE rice_remainders(read, r.bit_pos, i + 1, k,
                              [tmp EXCEPT ![i] = tmp[i] + r.val]))

\* for v in tmp { emit_coded_value(..); if out.len() >= output_bytes { break } }
RECURSIVE decode_into_emit(_, _, _, _, _)
decode_into_emit(w, params, tmp, i, output_bytes) ==
    IF i > Len(tmp) THEN w
    ELSE Bind(emit_coded_value(w, params, tmp[i], output_bytes), LAMBDA w1 :
         IF w1.err # OK THEN w1
         ELSE IF Len(w1.outb) >= output_bytes THEN w1
         ELSE decode_into_emit(w1, params, tmp, i + 1, output_bytes))

\* "Next block": the block counter and the RSI boundary.
decode_into_next_block(w, params) ==
    LET b == saturating_add(w.block_index_within_rsi, 1)
    IN  IF "DATA_PREPROCESS" \in params.flags /\ b >= params.rsi
        THEN [w EXCEPT !.block_index_within_rsi = 0,
                       !.sample_index_within_rsi = 0,
                       !.bit_pos = IF "PAD_RSI" \in params.flags
                                   THEN align_to_byte(@) ELSE @]
        ELSE [w EXCEPT !.block_index_within_rsi = b]

\* The zero-block run of decode_into, after the selector and the optional
\* reference sample; it ends with `continue`, skipping "Next block".
decode_into_zero_run(w, params, reference_sample_consumed, output_bytes) ==
    Bind(read_unary(w.data, w.bit_pos), LAMBDA r :
    LET w1 == [w EXCEPT !.bit_pos = r.bit_pos]
    IN  IF r.err # OK THEN [w1 EXCEPT !.err = during_decode(r.err)]
        ELSE Bind(zero_run_blocks(r.val, w.block_index_within_rsi, params.rsi),
                  LAMBDA z_blocks :
             LET zeros_samples == IF reference_sample_consumed
                                  THEN saturating_sub(z_blocks * params.block_size, 1)
                                  ELSE z_blocks * params.block_size
                 b == saturating_add(w.block_index_within_rsi, z_blocks)
             IN  Bind(emit_repeated_value(w1, params, 0, zeros_samples, output_bytes),
                      LAMBDA w2 :
                 IF w2.err # OK THEN w2
                 ELSE IF b >= params.rsi
                 THEN [w2 EXCEPT !.block_index_within_rsi = b % params.rsi,
                                 !.bit_pos = IF "PAD_RSI" \in params.flags
                                             THEN align_to_byte(@) ELSE @,
                                 !.sample_index_within_rsi = 0]
                 ELSE [w2 EXCEPT !.block_index_within_rsi = b])))

\* decode_into's Rice split option with the id itself, k + 1, as the split.
decode_into_rice_k_is_id(w, params, k, n, output_bytes) ==
    Bind(rice_quotients(w.data, w.bit_pos, n, k + 1, <<>>), LAMBDA q :
    IF q.err # OK
    THEN [w EXCEPT !.bit_pos = q.bit_pos, !.err = during_decode(q.err)]
    ELSE Bind(rice_remainders(w.data, q.bit_pos, 1, k + 1, q.tmp), LAMBDA rm :
         IF rm.err # OK
         THEN [w EXCEPT !.bit_pos = rm.bit_pos, !.err = during_decode(rm.err)]
         ELSE decode_into_emit([w EXCEPT !.bit_pos = rm.bit_pos],
                               params, rm.tmp, 1, output_bytes)))

\* The Rice split option of decode_into, after the optional reference sample.
decode_into_rice(w, params, k, n, output_bytes) ==
    Bind(rice_quotients(w.data, w.bit_pos, n, k, <<>>), LAMBDA q :
    IF q.err # OK
    THEN [w EXCEPT !.bit_pos = q.bit_pos, !.err = during_decode(q.err)]
    ELSE Bind(IF k > 0 THEN rice_remainders(w.data, q.bit_pos, 1, k, q.tmp) ELSE q,
              LAMBDA rm :
         IF rm.err # OK
         THEN [w EXCEPT !.bit_pos = rm.bit_pos, !.err = during_decode(rm.err)]
         ELSE decode_into_emit([w EXCEPT !.bit_pos = rm.bit_pos],
                               params, rm.tmp, 1, output_bytes)))

\* decode_into_block reading the reference right after the id in every
\* option, before the selector of a Low-Entropy block.
decode_into_block_reference_first(w0, params, output_bytes) ==
    LET preprocess == "DATA_PREPROCESS" \in params.flags
        ref_pending == preprocess /\ w0.block_index_within_rsi = 0
        w == IF ref_pending THEN [w0 EXCEPT !.predictor_x = None] ELSE w0
        J == params.block_size
        remaining_in_block == IF ref_pending THEN saturating_sub(J, 1) ELSE J
    IN  Bind(id_len(params), LAMBDA L :
        Bind(BitReader_read_bits_u32(w.data, w.bit_pos, L), LAMBDA rid :
        LET max_id == Pow2(L) - 1
            wi == [w EXCEPT !.bit_pos = rid.bit_pos]
        IN  IF rid.err # OK THEN [wi EXCEPT !.err = during_decode(rid.err)]
            ELSE Bind(IF ref_pending THEN consume_reference(wi, params) ELSE wi,
                      LAMBDA wr :
                 IF wr.err # OK THEN wr
                 ELSE Bind(IF rid.val = 0
                           THEN BitReader_read_bit(wr.data, wr.bit_pos)
                           ELSE [err |-> OK, val |-> 0, bit_pos |-> wr.bit_pos], LAMBDA rs :
                      LET ws == [wr EXCEPT !.bit_pos = rs.bit_pos]
                      IN  IF rs.err # OK THEN [ws EXCEPT !.err = during_decode(rs.err)]
                          ELSE IF ref_pending /\ Len(ws.outb) >= output_bytes THEN ws
                          ELSE IF rid.val = 0 /\ rs.val = 0
                          THEN decode_into_zero_run(ws, params, ref_pending, output_bytes)
                          ELSE Bind(IF rid.val = 0
                                    THEN emit_second_extension(ws, params, remaining_in_block,
                                                               ref_pending, output_bytes)
                                    ELSE IF rid.val = max_id
                                    THEN decode_into_uncompressed(ws, params,
                                             remaining_in_block, output_bytes)
                                    ELSE decode_into_rice(ws, params, rid.val - 1,
                                                          remaining_in_block, output_bytes),
                                    LAMBDA wb :
                               IF wb.err # OK THEN wb
                               ELSE decode_into_next_block(wb, params))))))

\* One pass of `while out.len() < output_bytes`: one block or zero-block run.
decode_into_block(w0, params, output_bytes) ==
    LET preprocess == "DATA_PREPROCESS" \in params.flags
        ref_pending == preprocess /\ w0.block_index_within_rsi = 0
        w == IF ref_pending THEN [w0 EXCEPT !.predictor_x = None] ELSE w0
        J == params.block_size
        remaining_in_block == IF ref_pending THEN saturating_sub(J, 1) ELSE J
    IN  Bind(id_len(params), LAMBDA L :
        Bind(BitReader_read_bits_u32(w.data, w.bit_pos, L), LAMBDA rid :
        LET max_id == Pow2(L) - 1
            wi == [w EXCEPT !.bit_pos = rid.bit_pos]
        IN  IF rid.err # OK THEN [wi EXCEPT !.err = during_decode(rid.err)]
            ELSE Bind(IF rid.val = 0
                      THEN BitReader_read_bit(wi.data, wi.bit_pos)
                      ELSE [err |-> OK, val |-> 0, bit_pos |-> wi.bit_pos], LAMBDA rs :
                 LET ws == [wi EXCEPT !.bit_pos = rs.bit_pos]
                 IN  IF rs.err # OK THEN [ws EXCEPT !.err = during_decode(rs.err)]
                     ELSE Bind(IF ref_pending THEN consume_reference(ws, params) ELSE ws,
                               LAMBDA wr :
                          IF wr.err # OK THEN wr
                          ELSE IF ref_pending /\ Len(wr.outb) >= output_bytes THEN wr
                          ELSE IF rid.val = 0 /\ rs.val = 0
                          THEN decode_into_zero_run(wr, params, ref_pending, output_bytes)
                          ELSE Bind(IF rid.val = 0
                                    THEN emit_second_extension(wr, params, remaining_in_block,
                                                               ref_pending, output_bytes)
                                    ELSE IF rid.val = max_id
                                    THEN decode_into_uncompressed(wr, params,
                                             remaining_in_block, output_bytes)
                                    ELSE decode_into_rice(wr, params, rid.val - 1,
                                                          remaining_in_block, output_bytes),
                                    LAMBDA wb :
                               IF wb.err # OK THEN wb
                               ELSE decode_into_next_block(wb, params))))))

RECURSIVE decode_into_loop(_, _, _)
decode_into_loop(w, params, output_bytes) ==
    IF w.err # OK \/ ~(Len(w.outb) < output_bytes) THEN w
    ELSE decode_into_loop(decode_into_block(w, params, output_bytes), params, output_bytes)

\* decode_into(input, params, output_samples, output) with output of length
\* output_len: the locals at its return; outb is what stands in output.
decode_into(input, params, output_samples, output_len) ==
    LET output_bytes == output_samples * bytes_per_sample(params)
        w == [err |-> OK, data |-> input, bit_pos |-> 0, outb |-> <<>>,
              cap |-> output_len, predictor_x |-> None,
              sample_index_within_rsi |-> 0, block_index_within_rsi |-> 0]
    IN  IF validate_params(params) # OK THEN [w EXCEPT !.err = validate_params(params)]
        ELSE IF output_len # output_bytes
        THEN [w EXCEPT !.err = InvalidInput("output buffer has wrong length")]
        ELSE decode_into_loop(w, params, output_bytes)

\* decode() with a check, after decode_into, that the input ends in the byte
\* of the last bit read.
decode_rejects_trailing(input, params, output_samples) ==
    IF validate_params(params) # OK THEN [err |-> validate_params(params), out |-> <<>>]
    ELSE Bind(decode_into(input, params, output_samples,
                          output_samples * bytes_per_sample(params)), LAMBDA w :
         IF w.err = OK /\ align_to_byte(w.bit_pos) < 8 * Len(input)
         THEN [err |-> InvalidInput("trailing bytes"), out |-> <<>>]
         ELSE [err |-> w.err, out |-> IF w.err = OK THEN w.outb ELSE <<>>])

\* The one-shot decode(): [err, out], out being the returned Vec<u8>.
decode(input, params, output_samples) ==
    IF validate_params(params) # OK THEN [err |-> validate_params(params), out |-> <<>>]
    ELSE Bind(decode_into(input, params, output_samples,
                          output_samples * bytes_per_sample(params)), LAMBDA w :
         [err |-> w.err, out |-> IF w.err = OK THEN w.outb ELSE <<>>])

-----------------------------------------------------------------------------
(* StreamBitReader: a record [buf, bit_pos, total_bytes_dropped].          *)

StreamBitReader_new == [buf |-> <<>>, bit_pos |-> 0, total_bytes_dropped |-> 0]

StreamBitReader_push(reader, data) == [reader EXCEPT !.buf = @ \o data]

avail_bytes(reader) == saturating_sub(Len(reader.buf), reader.bit_pos \div 8)

bits_read_total(reader) == reader.total_bytes_dropped * 8 + reader.bit_pos

\* align_to_byte with `self.bit_pos += 8` for every cursor.
StreamBitReader_align_to_byte_next(reader) ==
    [reader EXCEPT !.bit_pos = @ + (8 - (reader.bit_pos % 8))]

StreamBitReader_align_to_byte(reader) ==
    LET rem == reader.bit_pos % 8
    IN  IF rem # 0 THEN [reader EXCEPT !.bit_pos = @ + (8 - rem)] ELSE reader

\* The loop with `(byte >> bit_in_byte) & 1`, as BitReaderLsb has it.
RECURSIVE StreamBitReader_read_loop_lsb(_, _, _)
StreamBitReader_read_loop_lsb(reader, nbits, out) ==
    IF nbits = 0 THEN [err |-> OK, val |-> out, reader |-> reader]
    ELSE LET byte_idx == reader.bit_pos \div 8
             bit_in_byte == reader.bit_pos % 8
         IN  IF byte_idx >= Len(reader.buf)
             THEN [err |-> UnexpectedEof, val |-> 0, reader |-> reader]
             ELSE LET bit == (reader.buf[byte_idx + 1] \div Pow2(bit_in_byte)) % 2
                  IN  StreamBitReader_read_loop_lsb([reader EXCEPT !.bit_pos = @ + 1],
                                                    nbits - 1, out * 2 + bit)

\* A read returns [err, val, reader]; the reader keeps the bits it consumed
\* before a failure.
RECURSIVE StreamBitReader_read_loop(_, _, _)
StreamBitReader_read_loop(reader, nbits, out) ==
    IF nbits = 0 THEN [err |-> OK, val |-> out, reader |-> reader]
    ELSE LET byte_idx == reader.bit_pos \div 8
             bit_in_byte == reader.bit_pos % 8
         IN  IF byte_idx >= Len(reader.buf)
             THEN [err |-> UnexpectedEof, val |-> 0, reader |-> reader]
             ELSE LET bit == (reader.buf[byte_idx + 1] \div Pow2(7 - bit_in_byte)) % 2
                  IN  StreamBitReader_read_loop([reader EXCEPT !.bit_pos = @ + 1],
                                                nbits - 1, out * 2 + bit)

StreamBitReader_read_bits_u32(reader, nbits) ==
    IF nbits = 0 THEN [err |-> OK, val |-> 0, reader |-> reader]
    ELSE IF nbits > 32
    THEN [err |-> InvalidInput("read_bits_u32 supports up to 32 bits"),
          val |-> 0, reader |-> reader]
    ELSE StreamBitReader_read_loop(reader, nbits, 0)

StreamBitReader_read_bit(reader) == StreamBitReader_read_bits_u32(reader, 1)

\* compact_consumed_bytes without `self.total_bytes_dropped += bytes`.
compact_consumed_bytes_uncounted(reader) ==
    LET bytes == reader.bit_pos \div 8
    IN  IF bytes = 0 THEN [reader |-> reader, bytes |-> 0]
        ELSE [reader |-> [buf |-> SubSeq(reader.buf, bytes + 1, Len(reader.buf)),
                          bit_pos |-> reader.bit_pos - bytes * 8,
                          total_bytes_dropped |-> reader.total_bytes_dropped],
              bytes |-> bytes]

\* Returns [reader, bytes]: the bytes dropped from the head of buf.
compact_consumed_bytes(reader) ==
    LET bytes == reader.bit_pos \div 8
    IN  IF bytes = 0 THEN [reader |-> reader, bytes |-> 0]
        ELSE [reader |-> [buf |-> SubSeq(reader.buf, bytes + 1, Len(reader.buf)),
                          bit_pos |-> reader.bit_pos - bytes * 8,
                          total_bytes_dropped |-> reader.total_bytes_dropped + bytes],
              bytes |-> bytes]

read_unary_stream(reader) ==
    Bind(unary_scan(reader.buf, reader.bit_pos), LAMBDA r :
    [err |-> r.err, val |-> r.val, reader |-> [reader EXCEPT !.bit_pos = r.bit_pos]])

-----------------------------------------------------------------------------
(* The streaming Decoder: a record of the fields of struct Decoder.        *)

Decoder_new(params, output_samples) ==
    [params |-> params,
     bytes_per_sample |-> bytes_per_sample(params),
     id_len |-> id_len(params),
     preprocess |-> "DATA_PREPROCESS" \in params.flags,
     output_samples |-> output_samples,
     samples_written |-> 0,
     predictor_x |-> None,
     sample_index_within_rsi |-> 0,
     block_index_within_rsi |-> 0,
     reader |-> StreamBitReader_new,
     pending |-> <<>>,
     pending_pos |-> 0,
     pending_repeat |-> None,
     total_in |-> 0,
     total_out |-> 0]

push_input(d, input) == [d EXCEPT !.reader = StreamBitReader_push(@, input)]

total_in(d) == d.total_in

total_out(d) == d.total_out

avail_in(d) == avail_bytes(d.reader)

snapshot(d) ==
    [predictor_x |-> d.predictor_x,
     sample_index_within_rsi |-> d.sample_index_within_rsi,
     block_index_within_rsi |-> d.block_index_within_rsi,
     samples_written |-> d.samples_written,
     reader |-> d.reader,
     pending |-> d.pending,
     pending_pos |-> d.pending_pos,
     pending_repeat |-> d.pending_repeat]

\* restore without `self.samples_written = s.samples_written`.
restore_keeps_samples_written(d, s) ==
    [d EXCEPT !.predictor_x = s.predictor_x,
              !.sample_index_within_rsi = s.sample_index_within_rsi,
              !.block_index_within_rsi = s.block_index_within_rsi,
              !.reader = s.reader,
              !.pending = s.pending,
              !.pending_pos = s.pending_pos,
              !.pending_repeat = s.pending_repeat]

\* restore without `self.reader = s.reader`.
restore_keeps_reader(d, s) ==
    [d EXCEPT !.predictor_x = s.predictor_x,
              !.sample_index_within_rsi = s.sample_index_within_rsi,
              !.block_index_within_rsi = s.block_index_within_rsi,
              !.samples_written = s.samples_written,
              !.pending = s.pending,
              !.pending_pos = s.pending_pos,
              !.pending_repeat = s.pending_repeat]

\* restore with `self.samples_written = 0`.
restore_resets_samples_written(d, s) ==
    [d EXCEPT !.predictor_x = s.predictor_x,
              !.sample_index_within_rsi = s.sample_index_within_rsi,
              !.block_index_within_rsi = s.block_index_within_rsi,
              !.samples_written = 0,
              !.reader = s.reader,
              !.pending = s.pending,
              !.pending_pos = s.pending_pos,
              !.pending_repeat = s.pending_repeat]

\* restore that leaves self as the failed attempt left it.
restore_nothing(d, s) == d

restore(d, s) ==
    [d EXCEPT !.predictor_x = s.predictor_x,
              !.sample_index_within_rsi = s.sample_index_within_rsi,
              !.block_index_within_rsi = s.block_index_within_rsi,
              !.samples_written = s.samples_written,
              !.reader = s.reader,
              !.pending = s.pending,
              !.pending_pos = s.pending_pos,
              !.pending_repeat = s.pending_repeat]

\* Returns [d, n, bytes]: n bytes of pending copied to out[written..].
flush_pending(d, out_len, written) ==
    IF d.pending_pos >= Len(d.pending)
    THEN [d |-> [d EXCEPT !.pending = <<>>, !.pending_pos = 0], n |-> 0, bytes |-> <<>>]
    ELSE LET available == saturating_sub(out_len, written)
             remaining == saturating_sub(Len(d.pending), d.pending_pos)
             to_copy == Min(available, remaining)
         IN  [d |-> [d EXCEPT !.pending_pos = @ + to_copy],
              n |-> to_copy,
              bytes |-> SubSeq(d.pending, d.pending_pos + 1, d.pending_pos + to_copy)]

\* A unit being decoded: u = [err, d, outb, cap], d the Decoder and
\* (outb, cap) the OutBuf over block_out.  The calls below pass
\* &mut self.predictor_x and &mut self.sample_index_within_rsi.
unit_emit(u, v) ==
    Bind(emit_coded_value([err |-> OK, outb |-> u.outb, cap |-> u.cap,
                           predictor_x |-> u.d.predictor_x,
                           sample_index_within_rsi |-> u.d.sample_index_within_rsi],
                          u.d.params, v, USIZE_MAX), LAMBDA e :
    [err |-> e.err, outb |-> e.outb, cap |-> u.cap,
     d |-> [u.d EXCEPT !.predictor_x = e.predictor_x,
                       !.sample_index_within_rsi = e.sample_index_within_rsi]])

\* `out_end >= out.len()` in place of `out_end > out.len()`.
repeat_no_room_inclusive(written, sample_len, out_len) == written + sample_len >= out_len

\* if out_end > out.len(): no room for one more sample of a repeat-run.
repeat_no_room(written, sample_len, out_len) == written + sample_len > out_len

\* Returns [err, d, written, bytes, status]: status is None or Some(status).
RECURSIVE flush_repeat_loop(_, _, _, _)
flush_repeat_loop(d, out_len, written, bytes) ==
    LET rep == d.pending_repeat[1]
        done == [err |-> OK, d |-> d, written |-> written, bytes |-> bytes, status |-> None]
    IN  IF written < out_len /\ rep.remaining > 0
        THEN IF d.samples_written >= d.output_samples
             THEN [done EXCEPT !.d = [d EXCEPT !.pending_repeat = None],
                               !.status = Some("Finished")]
             ELSE IF repeat_no_room(written, d.bytes_per_sample, out_len)
             THEN [done EXCEPT !.status = Some("NeedOutput")]
             ELSE Bind(unit_emit([err |-> OK, d |-> d, outb |-> <<>>,
                                  cap |-> d.bytes_per_sample], rep.coded_value), LAMBDA u :
                  IF u.err # OK
                  THEN [done EXCEPT !.err = u.err, !.d = u.d]
                  ELSE flush_repeat_loop(
                           [u.d EXCEPT !.samples_written = @ + 1,
                                       !.pending_repeat = Some([rep EXCEPT !.remaining = @ - 1])],
                           out_len, written + d.bytes_per_sample, bytes \o u.outb))
        ELSE LET d1 == IF rep.remaining = 0 THEN [d EXCEPT !.pending_repeat = None] ELSE d
             IN  IF written >= out_len
                 THEN [done EXCEPT !.d = d1, !.status = Some("NeedOutput")]
                 ELSE [done EXCEPT !.d = d1]

flush_repeat(d, out_len, written) ==
    IF ~is_some(d.pending_repeat)
    THEN [err |-> OK, d |-> d, written |-> written, bytes |-> <<>>, status |-> None]
    ELSE flush_repeat_loop(d, out_len, written, <<>>)

\* self.reader.read_bits_u32(nbits)? within a unit: [u, val].
unit_read(u, nbits) ==
    Bind(StreamBitReader_read_bits_u32(u.d.reader, nbits), LAMBDA r :
    [u |-> [u EXCEPT !.err = r.err, !.d.reader = r.reader], val |-> r.val])

\* read_unary_stream(&mut self.reader)? within a unit: [u, val].
unit_read_unary(u) ==
    Bind(read_unary_stream(u.d.reader), LAMBDA r :
    [u |-> [u EXCEPT !.err = r.err, !.d.reader = r.reader], val |-> r.val])

\* The closure consume_reference of decode_next_unit.
Decoder_consume_reference(u) ==
    Bind(unit_read(u, u.d.params.bits_per_sample), LAMBDA r :
    LET params == u.d.params
        ref_val == IF "DATA_SIGNED" \in params.flags
                   THEN sign_extend(r.val, params.bits_per_sample)
                   ELSE r.val
    IN  IF r.u.err # OK THEN r.u
        ELSE Bind(write_sample([err |-> OK, outb |-> r.u.outb, cap |-> r.u.cap],
                               ref_val, params), LAMBDA w :
             IF w.err # OK THEN [r.u EXCEPT !.err = w.err]
             ELSE [r.u EXCEPT !.outb = w.outb,
                              !.d.predictor_x = Some(ref_val),
                              !.d.sample_index_within_rsi = @ + 1]))

\* if ref_pending { consume_reference(self, &mut out)?; self.samples_written += 1; }
unit_reference(u, ref_pending) ==
    IF ~ref_pending THEN u
    ELSE Bind(Decoder_consume_reference(u), LAMBDA u1 :
         IF u1.err # OK THEN u1
         ELSE [u1 EXCEPT !.d.samples_written = @ + 1])

\* unit_commit clearing the predictor at the end of every block.
unit_commit_clearing_predictor(u) ==
    LET d == [u.d EXCEPT !.pending = u.outb, !.pending_pos = 0, !.predictor_x = None]
        b == saturating_add(d.block_index_within_rsi, 1)
    IN  IF d.preprocess /\ b >= d.params.rsi
        THEN [d EXCEPT !.block_index_within_rsi = 0,
                       !.sample_index_within_rsi = 0,
                       !.reader = IF "PAD_RSI" \in d.params.flags
                                  THEN StreamBitReader_align_to_byte(@) ELSE @]
        ELSE [d EXCEPT !.block_index_within_rsi = b]

\* Commit block output and advance the block counter.
unit_commit(u) ==
    LET d == [u.d EXCEPT !.pending = u.outb, !.pending_pos = 0]
        b == saturating_add(d.block_index_within_rsi, 1)
    IN  IF d.preprocess /\ b >= d.params.rsi
        THEN [d EXCEPT !.block_index_within_rsi = 0,
                       !.sample_index_within_rsi = 0,
                       !.reader = IF "PAD_RSI" \in d.params.flags
                                  THEN StreamBitReader_align_to_byte(@) ELSE @]
        ELSE [d EXCEPT !.block_index_within_rsi = b]

\* The zero-block run: the samples are scheduled in pending_repeat.
\* The zero-run arm with the samples of the run written to block_out, as
\* decode_into writes them, in place of `self.pending_repeat = Some(..)`.
unit_zero_run_materialised(u, reference_sample_consumed, remaining_total_samples) ==
    Bind(unit_read_unary(u), LAMBDA r :
    IF r.u.err # OK THEN r.u
    ELSE Bind(zero_run_blocks(r.val, r.u.d.block_index_within_rsi, r.u.d.params.rsi),
              LAMBDA z_blocks :
         LET d == r.u.d
             J == d.params.block_size
             zeros_all == IF reference_sample_consumed
                          THEN saturating_sub(z_blocks * J, 1)
                          ELSE z_blocks * J
             zeros_samples == Min(zeros_all, remaining_total_samples)
             b == saturating_add(d.block_index_within_rsi, z_blocks)
             e == emit_repeated_value(
                      [err |-> OK, outb |-> r.u.outb, cap |-> USIZE_MAX,
                       predictor_x |-> d.predictor_x,
                       sample_index_within_rsi |-> d.sample_index_within_rsi],
                      d.params, 0, zeros_samples, USIZE_MAX)
             d1 == [d EXCEPT !.pending = e.outb,
                             !.pending_pos = 0,
                             !.samples_written = @ + zeros_samples]
         IN  [r.u EXCEPT !.d =
                 IF b >= d.params.rsi
                 THEN [d1 EXCEPT !.block_index_within_rsi = b % d.params.rsi,
                                 !.reader = IF "PAD_RSI" \in d.params.flags
                                            THEN StreamBitReader_align_to_byte(@) ELSE @,
                                 !.sample_index_within_rsi = 0]
                 ELSE [d1 EXCEPT !.block_index_within_rsi = b]]))

unit_zero_run(u, reference_sample_consumed, remaining_total_samples) ==
    Bind(unit_read_unary(u), LAMBDA r :
    IF r.u.err # OK THEN r.u
    ELSE Bind(zero_run_blocks(r.val, r.u.d.block_index_within_rsi, r.u.d.params.rsi),
              LAMBDA z_blocks :
         LET d == r.u.d
             J == d.params.block_size
             zeros_all == IF reference_sample_consumed
                          THEN saturating_sub(z_blocks * J, 1)
                          ELSE z_blocks * J
             zeros_samples == Min(zeros_all, remaining_total_samples)
             b == saturating_add(d.block_index_within_rsi, z_blocks)
             d1 == [d EXCEPT !.pending = r.u.outb,
                             !.pending_pos = 0,
                             !.pending_repeat =
                                 IF zeros_samples > 0
                                 THEN Some([coded_value |-> 0, remaining |-> zeros_samples])
                                 ELSE @]
         IN  [r.u EXCEPT !.d =
                 IF b >= d.params.rsi
                 THEN [d1 EXCEPT !.block_index_within_rsi = b % d.params.rsi,
                                 !.reader = IF "PAD_RSI" \in d.params.flags
                                            THEN StreamBitReader_align_to_byte(@) ELSE @,
                                 !.sample_index_within_rsi = 0]
                 ELSE [d1 EXCEPT !.block_index_within_rsi = b]]))

\* if produced_samples < limit { emit_coded_value(v)?; produced_samples += 1;
\* self.samples_written += 1; }: [u, produced].
unit_second_extension_emit(u, v, produced_samples, limit) ==
    IF ~(produced_samples < limit) THEN [u |-> u, produced |-> produced_samples]
    ELSE Bind(unit_emit(u, v), LAMBDA u1 :
         IF u1.err # OK THEN [u |-> u1, produced |-> produced_samples]
         ELSE [u |-> [u1 EXCEPT !.d.samples_written = @ + 1],
               produced |-> produced_samples + 1])

\* The Second Extension loop of decode_next_unit.
RECURSIVE unit_second_extension(_, _, _, _)
unit_second_extension(u, remaining_in_block, produced_samples, limit) ==
    IF ~(remaining_in_block > 0 /\ produced_samples < limit) THEN u
    ELSE Bind(unit_read_unary(u), LAMBDA r :
         IF r.u.err # OK THEN r.u
         ELSE IF r.val > 90
         THEN [r.u EXCEPT !.err = InvalidInput("Second Extension unary symbol too large")]
         ELSE Bind(second_extension_pair(r.val), LAMBDA ab :
              Bind(unit_second_extension_emit(r.u, ab[1], produced_samples, limit),
                   LAMBDA ea :
              LET rem1 == saturating_sub(remaining_in_block, 1)
                  rem2 == saturating_sub(rem1, 1)
              IN  IF ea.u.err # OK THEN ea.u
                  ELSE Bind(unit_second_extension_emit(ea.u, ab[2], ea.produced, limit),
                            LAMBDA eb :
                       IF eb.u.err # OK THEN eb.u
                       ELSE unit_second_extension(eb.u, rem2, eb.produced, limit)))))

\* The raw samples of an Uncompressed block.
RECURSIVE unit_uncompressed(_, _)
unit_uncompressed(u, count) ==
    IF count = 0 \/ u.d.samples_written >= u.d.output_samples THEN u
    ELSE Bind(unit_read(u, u.d.params.bits_per_sample), LAMBDA r :
         IF r.u.err # OK THEN r.u
         ELSE Bind(unit_emit(r.u, r.val), LAMBDA u1 :
              IF u1.err # OK THEN u1
              ELSE unit_uncompressed([u1 EXCEPT !.d.samples_written = @ + 1],
                                     count - 1)))

\* The first pass of a Rice split block: [u, tmp].
RECURSIVE unit_rice_quotients(_, _, _, _)
unit_rice_quotients(u, count, k, tmp) ==
    IF count = 0 THEN [u |-> u, tmp |-> tmp]
    ELSE Bind(unit_read_unary(u), LAMBDA r :
         IF r.u.err # OK THEN [u |-> r.u, tmp |-> tmp]
         ELSE Bind(checked_shl(r.val, k), LAMBDA sh :
              IF ~is_some(sh)
              THEN [u |-> [r.u EXCEPT !.err = InvalidInput("rice shift overflow")],
                    tmp |-> tmp]
              ELSE unit_rice_quotients(r.u, count - 1, k, Append(tmp, sh[1]))))

\* The second pass: [u, tmp].
RECURSIVE unit_rice_remainders(_, _, _, _)
unit_rice_remainders(u, i, k, tmp) ==
    IF i > Len(tmp) THEN [u |-> u, tmp |-> tmp]
    ELSE Bind(unit_read(u, k), LAMBDA r :
         IF r.u.err # OK THEN [u |-> r.u, tmp |-> tmp]
         ELSE unit_rice_remainders(r.u, i + 1, k, [tmp EXCEPT ![i] = tmp[i] + r.val]))

\* for v in tmp { if self.samples_written >= self.output_samples { break } .. }
RECURSIVE unit_rice_emit(_, _, _)
unit_rice_emit(u, tmp, i) ==
    IF i > Len(tmp) \/ u.d.samples_written >= u.d.output_samples THEN u
    ELSE Bind(unit_emit(u, tmp[i]), LAMBDA u1 :
         IF u1.err # OK THEN u1
         ELSE unit_rice_emit([u1 EXCEPT !.d.samples_written = @ + 1], tmp, i + 1))

unit_rice(u, k, remaining_in_block) ==
    LET n == Min(remaining_in_block,
                 saturating_sub(u.d.output_samples, u.d.samples_written))
    IN  Bind(unit_rice_quotients(u, n, k, <<>>), LAMBDA q :
        IF q.u.err # OK THEN q.u
        ELSE Bind(IF k > 0 THEN unit_rice_remainders(q.u, 1, k, q.tmp) ELSE q, LAMBDA rm :
             IF rm.u.err # OK THEN rm.u
             ELSE unit_rice_emit(rm.u, rm.tmp, 1)))

\* The end of decode_next_unit for a block: Err(e), or the commit and Ok(()).
unit_finish(u) ==
    IF u.err # OK THEN [err |-> u.err, d |-> u.d]
    ELSE [err |-> OK, d |-> unit_commit(u)]

\* The zero-block run returns Ok(()) itself, without the block's commit.
unit_return(u) == [err |-> u.err, d |-> u.d]

\* Decoder::decode_next_unit: [err, d]; on Err, d is self as the failed
\* attempt left it.
decode_next_unit(d0) ==
    IF d0.pending_pos < Len(d0.pending) THEN [err |-> OK, d |-> d0]
    ELSE LET J == d0.params.block_size
             ref_pending == d0.preprocess /\ d0.block_index_within_rsi = 0
             d == IF ref_pending THEN [d0 EXCEPT !.predictor_x = None] ELSE d0
             u0 == [err |-> OK, d |-> d, outb |-> <<>>, cap |-> d.bytes_per_sample * J]
             max_id == Pow2(d.id_len) - 1
             remaining_total_samples == saturating_sub(d.output_samples, d.samples_written)
             max_samples_this_block == Min(J, remaining_total_samples)
             remaining_in_block == IF ref_pending THEN saturating_sub(J, 1) ELSE J
         IN  Bind(unit_read(u0, d.id_len), LAMBDA rid :
             IF rid.u.err # OK THEN unit_return(rid.u)
             ELSE Bind(IF rid.val = 0 THEN unit_read(rid.u, 1)
                       ELSE [u |-> rid.u, val |-> 0], LAMBDA rs :
                  IF rs.u.err # OK THEN unit_return(rs.u)
                  ELSE Bind(unit_reference(rs.u, ref_pending), LAMBDA ur :
                       IF ur.err # OK THEN unit_return(ur)
                       ELSE IF rid.val = 0 /\ rs.val = 0
                       THEN unit_return(unit_zero_run(ur, ref_pending,
                                saturating_sub(ur.d.output_samples, ur.d.samples_written)))
                       ELSE unit_finish(
                                IF rid.val = 0
                                THEN unit_second_extension(ur, remaining_in_block, 0,
                                         saturating_sub(max_samples_this_block,
                                                        IF ref_pending THEN 1 ELSE 0))
                                ELSE IF rid.val = max_id
                                THEN unit_uncompressed(ur, remaining_in_block)
                                ELSE unit_rice(ur, rid.val - 1, remaining_in_block)))))

\* Decoder::decode's results: [err, status, written, bytes, d, attempt]:
\* bytes is out[..written]; attempt is None, or Some of self as it stood
\* when the snapshot of the failed unit was taken.
decode_result(err, status, written, bytes, d, attempt) ==
    [err |-> err, status |-> status, written |-> written, bytes |-> bytes,
     d |-> d, attempt |-> attempt]

add_total_out(d, written) == [d EXCEPT !.total_out = @ + written]

\* `>` in place of `>=` on entry to decode.
already_finished_strict(d) == d.samples_written > d.output_samples

\* if self.samples_written >= self.output_samples, on entry to decode.
already_finished(d) == d.samples_written >= d.output_samples

\* `>` in place of `>=` at the head of the loop.
loop_finished_strict(d) == d.samples_written > d.output_samples

\* The same test at the head of each pass of the loop.
loop_finished(d) == d.samples_written >= d.output_samples

\* The return after a unit ran out of input with the match on flush dropped.
eof_return_need_input(flush, written, bytes, d, at) ==
    decode_result(OK, "NeedInput", written, bytes, d, Some(at))

\* The return after a unit ran out of input: d is self after restore and
\* the update of total_out, at the snapshot taken of self as it stood.
eof_return(flush, written, bytes, d, at) ==
    IF flush = "NoFlush"
    THEN decode_result(OK, "NeedInput", written, bytes, d, Some(at))
    ELSE decode_result(UnexpectedEofDuringDecode, "", written, bytes, d, Some(at))

RECURSIVE decode_loop(_, _, _, _, _)

\* `if let Some(status) = self.flush_repeat(out, &mut written)? { self.total_out
\* += written; return Ok((written, status)); }` with fr the result of
\* flush_repeat, and what follows it: the loop.
flush_repeat_then(fr, out_len, flush, bytes) ==
    IF fr.err # OK
    THEN decode_result(fr.err, "", fr.written, bytes \o fr.bytes, fr.d, None)
    ELSE IF is_some(fr.status)
    THEN decode_result(OK, fr.status[1], fr.written, bytes \o fr.bytes,
                       add_total_out(fr.d, fr.written), None)
    ELSE decode_loop(fr.d, out_len, flush, fr.written, bytes \o fr.bytes)

\* `while written < out.len()` of Decoder::decode.
decode_loop(d0, out_len, flush, written, bytes) ==
    IF ~(written < out_len)
    THEN decode_result(OK, "NeedOutput", written, bytes, add_total_out(d0, written), None)
    ELSE IF loop_finished(d0)
    THEN decode_result(OK, "Finished", written, bytes, add_total_out(d0, written), None)
    ELSE LET d == IF d0.preprocess /\ d0.block_index_within_rsi = 0
                  THEN [d0 EXCEPT !.predictor_x = None] ELSE d0
         IN  Bind(snapshot(d), LAMBDA snap :
             Bind(decode_next_unit(d), LAMBDA unit :
             IF unit.err = OK
             THEN Bind(compact_consumed_bytes(unit.d.reader), LAMBDA c :
                  Bind(flush_pending([unit.d EXCEPT !.reader = c.reader,
                                                    !.total_in = @ + c.bytes],
                                     out_len, written), LAMBDA fp :
                  LET written1 == written + fp.n
                      bytes1 == bytes \o fp.bytes
                  IN  IF written1 >= out_len
                      THEN decode_result(OK, "NeedOutput", written1, bytes1,
                                         add_total_out(fp.d, written1), None)
                      ELSE flush_repeat_then(flush_repeat(fp.d, out_len, written1),
                                             out_len, flush, bytes1)))
             ELSE IF unit.err \in {UnexpectedEof, UnexpectedEofDuringDecode}
             THEN eof_return(flush, written, bytes,
                             add_total_out(restore(unit.d, snap), written), d)
             ELSE decode_result(unit.err, "", written, bytes, restore(unit.d, snap), Some(d))))

\* decode with the predictor reset of its loop made on entry, before the
\* pending repeat is flushed.
Decoder_decode_reset_on_entry(d0, out_len, flush) ==
    IF already_finished(d0)
    THEN decode_result(OK, "Finished", 0, <<>>, d0, None)
    ELSE Bind(IF d0.preprocess /\ d0.block_index_within_rsi = 0
              THEN [d0 EXCEPT !.predictor_x = None] ELSE d0, LAMBDA d :
         Bind(flush_pending(d, out_len, 0), LAMBDA fp :
         IF fp.n >= out_len
         THEN decode_result(OK, "NeedOutput", fp.n, fp.bytes,
                            add_total_out(fp.d, fp.n), None)
         ELSE flush_repeat_then(flush_repeat(fp.d, out_len, fp.n), out_len, flush, fp.bytes)))

\* Decoder::decode(out, flush) with out.len() = out_len.
Decoder_decode(d, out_len, flush) ==
    IF already_finished(d)
    THEN decode_result(OK, "Finished", 0, <<>>, d, None)
    ELSE Bind(flush_pending(d, out_len, 0), LAMBDA fp :
         IF fp.n >= out_len
         THEN decode_result(OK, "NeedOutput", fp.n, fp.bytes,
                            add_total_out(fp.d, fp.n), None)
         ELSE flush_repeat_then(flush_repeat(fp.d, out_len, fp.n), out_len, flush, fp.bytes))

-----------------------------------------------------------------------------
(* The inputs: parameter sets, sample counts and payloads.  A payload is   *)
(* written block by block as its bit fields and packed MSB-first, the last *)
(* byte padded with zero bits.                                             *)

Bits(v, width) == [i \in 1..width |-> (v \div Pow2(width - i)) % 2]

Unary(q) == [i \in 1..(q + 1) |-> IF i = q + 1 THEN 1 ELSE 0]

RECURSIVE Concat(_)
Concat(ss) == IF Len(ss) = 0 THEN <<>> ELSE Head(ss) \o Concat(Tail(ss))

Fields(vs, width) == Concat([i \in 1..Len(vs) |-> Bits(vs[i], width)])

Unaries(qs) == Concat([i \in 1..Len(qs) |-> Unary(qs[i])])

PadToByte(bits) == bits \o [i \in 1..((8 - (Len(bits) % 8)) % 8) |-> 0]

Pack(bits) ==
    LET p == PadToByte(bits)
    IN  [i \in 1..(Len(p) \div 8) |->
            p[8*i-7] * 128 + p[8*i-6] * 64 + p[8*i-5] * 32 + p[8*i-4] * 16
            + p[8*i-3] * 8 + p[8*i-2] * 4 + p[8*i-1] * 2 + p[8*i]]

\* required: the length of the payload proper; the bytes of payload after
\* them are bytes that follow the payload in the caller's byte stream.
Input(params, output_samples, bits) ==
    [params |-> params, output_samples |-> output_samples, payload |-> Pack(bits),
     required |-> Len(Pack(bits))]

\* The input i followed by the bytes of suffix.
Trailing(i, suffix) == [i EXCEPT !.payload = @ \o suffix]

\* The input i without the bytes that follow its payload.
Required(i) == [i EXCEPT !.payload = SubSeq(@, 1, i.required)]

\* n = 2, RESTRICTED: 1-bit ids (0 Low-Entropy, 1 Uncompressed), 1 byte per sample.
ParamsPlain == AecParams_new(2, 8, 2, {"RESTRICTED"})

ParamsPre == AecParams_new(2, 8, 2, {"RESTRICTED", "DATA_PREPROCESS", "PAD_RSI"})

\* n = 9: 4-bit ids, 2 bytes per sample.
ParamsWide == AecParams_new(9, 8, 2, {"MSB"})

ParamsWidePre == AecParams_new(9, 8, 2, {"MSB", "DATA_PREPROCESS"})

\* n = 3, RESTRICTED: 2-bit ids (0 Low-Entropy, 1 and 2 Rice split, 3 Uncompressed).
ParamsRice == AecParams_new(3, 8, 1, {"RESTRICTED", "DATA_SIGNED", "DATA_PREPROCESS"})

\* n = 2, RESTRICTED, PAD_RSI without DATA_PREPROCESS: every block ends an RSI.
ParamsPad == AecParams_new(2, 8, 1, {"RESTRICTED", "PAD_RSI"})

UncompressedBits == <<1>> \o Fields(<<0, 3, 1, 2, 3, 1, 2, 3>>, 2)

ZeroRunThenUncompressedBits == <<0, 0>> \o Unary(0) \o UncompressedBits

SecondExtensionBits == <<0, 1>> \o Unaries(<<1, 2, 0, 4>>)

\* RSI start with PREPROCESS: id 0, selector 1, the reference, 4 symbols;
\* then an Uncompressed block, which ends the RSI.
PreSecondExtensionBits ==
    <<0, 1>> \o Bits(1, 2) \o Unaries(<<1, 2, 0, 1>>) \o UncompressedBits

\* RSI start with PREPROCESS: a zero-block run over the 2 blocks of the RSI,
\* the padding to the byte, and an Uncompressed block starting the next RSI.
PreZeroRunBits ==
    PadToByte(<<0, 0>> \o Bits(2, 2) \o Unary(1))
    \o <<1>> \o Fields(<<1, 3, 0, 2, 1, 1, 0, 3>>, 2)

WideZeroRunsBits == Bits(0, 4) \o <<0>> \o Unary(0) \o Bits(0, 4) \o <<0>> \o Unary(0)

WidePreZeroRunBits == Bits(0, 4) \o <<0>> \o Bits(300, 9) \o Unary(1)

\* Two RSIs of one Rice split block each: id 1 (k = 0), the reference and 7
\* quotients; then id 2 (k = 1), the reference, 7 quotients and 7 remainders.
RiceBits ==
    Bits(1, 2) \o Bits(5, 3) \o Unaries(<<1, 0, 3, 0, 0, 2, 0>>)
    \o Bits(2, 2) \o Bits(2, 3) \o Unaries(<<0, 1, 0, 2, 0, 0, 1>>)
        \o Fields(<<1, 0, 1, 1, 0, 0, 1>>, 1)

\* Two RSIs of one Uncompressed block each, the first padded to the byte.
PaddedUncompressedBits == PadToByte(UncompressedBits) \o UncompressedBits

\* A Second Extension block whose first unary symbol is 91: past the table.
BadSecondExtensionBits == <<0, 1>> \o Unary(91)

Inputs ==
    { Input(ParamsPlain, 8, UncompressedBits),
      Input(ParamsPlain, 16, ZeroRunThenUncompressedBits),
      Input(ParamsPlain, 12, ZeroRunThenUncompressedBits),
      Input(ParamsPlain, 8, SecondExtensionBits),
      Input(ParamsPre, 16, PreSecondExtensionBits),
      Input(ParamsPre, 24, PreZeroRunBits),
      Input(ParamsWide, 10, WideZeroRunsBits),
      Input(ParamsWidePre, 10, WidePreZeroRunBits),
      Input(ParamsRice, 16, RiceBits),
      Input(ParamsRice, 12, RiceBits),
      Input(ParamsPlain, 8, BadSecondExtensionBits),
      Input(ParamsPad, 8, UncompressedBits),
      Input(ParamsPad, 16, PaddedUncompressedBits),
      Trailing(Input(ParamsPlain, 8, UncompressedBits), <<255, 1>>),
      Trailing(Input(ParamsPre, 24, PreZeroRunBits), <<85>>),
      Trailing(Input(ParamsRice, 16, RiceBits), <<170>>) }

\* A payload the one-shot decoder decodes to output_samples samples.
WellFormed(i) == decode(i.payload, i.params, i.output_samples).err = OK

-----------------------------------------------------------------------------
(* The caller of the streaming Decoder.                                    *)

\* The longest chunk passed to push_input, and the largest of the small
\* output buffers passed to decode.
MaxChunk == 2

MaxOutLen == 3

VARIABLES
    inp,      \* the parameters, the sample count and the payload
    dec,      \* the Decoder
    pushed,   \* how many bytes of the payload push_input has been given
    sink,     \* the bytes the caller has taken from the Ok returns of decode
    ret,      \* the last return of decode: [err, status, written, out_len, flush,
              \* again]; again: the call before it had returned Finished
    attempt   \* Some(self at the snapshot) if that call ended in a failed unit

vars == <<inp, dec, pushed, sink, ret, attempt>>

NoReturn ==
    [err |-> OK, status |-> "", written |-> 0, out_len |-> 0, flush |-> "NoFlush",
     again |-> FALSE]

OutLens == (0..MaxOutLen) \cup {inp.output_samples * dec.bytes_per_sample}

Init ==
    /\ inp \in Inputs
    /\ dec = Decoder_new(inp.params, inp.output_samples)
    /\ pushed = 0
    /\ sink = <<>>
    /\ ret = NoReturn
    /\ attempt = None

\* dec.push_input(&payload[pushed..pushed + k]); a caller that has passed
\* Flush::Flush has promised to push no more.
PushInput(k) ==
    /\ ret.err = OK
    /\ ret.flush = "NoFlush"
    /\ pushed + k <= Len(inp.payload)
    /\ dec' = push_input(dec, SubSeq(inp.payload, pushed + 1, pushed + k))
    /\ pushed' = pushed + k
    /\ UNCHANGED <<inp, sink, ret, attempt>>

\* dec.decode(&mut out, flush) with out.len() = out_len; the caller keeps
\* out[..written] of an Ok return, and does not reuse a decoder after an Err.
Decode(out_len, flush) ==
    /\ ret.err = OK
    /\ \E r \in {Decoder_decode(dec, out_len, flush)} :
           /\ dec' = r.d
           /\ sink' = IF r.err = OK THEN sink \o r.bytes ELSE sink
           /\ ret' = [err |-> r.err, status |-> r.status, written |-> r.written,
                      out_len |-> out_len, flush |-> flush,
                      again |-> ret.status = "Finished"]
           /\ attempt' = r.attempt
    /\ UNCHANGED <<inp, pushed>>

Next ==
    \/ \E k \in 1..MaxChunk : PushInput(k)
    \/ \E out_len \in OutLens, flush \in {"NoFlush", "Flush"} : Decode(out_len, flush)

Spec == Init /\ [][Next]_vars

-----------------------------------------------------------------------------
(* What the documentation says of the streaming Decoder.                   *)

\* output_samples * bytes_per_sample: the length of the decoded output.
ExpectedLen == inp.output_samples * dec.bytes_per_sample

\* The last call of decode returned Ok((written, status)).
Returned(status) == ret.err = OK /\ ret.status = status

\* The output of the one-shot decode() on the whole payload.
OneShot(i) == decode(i.payload, i.params, i.output_samples).out

\* The bytes of a decoder given the whole payload by one push_input and one
\* output buffer of the full length by one decode.
SinglePass(i) ==
    Decoder_decode(push_input(Decoder_new(i.params, i.output_samples), i.payload),
                   i.output_samples * bytes_per_sample(i.params), "Flush").bytes

\* C1: for every well-formed payload and every schedule of push_input chunks
\* and output-buffer sizes, the bytes the streaming Decoder has returned when
\* it returns Finished are the bytes of the one-shot decode().
C1_StreamingEqualsOneShot ==
    (Returned("Finished") /\ WellFormed(inp)) => sink = OneShot(inp)

\* C2: whenever decode returns Finished, the byte counts returned so far and
\* total_out() both add up to output_samples * bytes_per_sample.
C2_FinishedDeliversAll ==
    Returned("Finished") => (Len(sink) = ExpectedLen /\ total_out(dec) = ExpectedLen)

\* C3: whatever the schedule of push_input chunks and output-buffer sizes, the
\* bytes produced up to Finished are those of pushing the whole payload once
\* and decoding it in a single pass.
C3_ChunkingIndependent ==
    Returned("Finished") => sink = SinglePass(inp)

\* C4: decode called with Flush never returns NeedInput: where the buffered
\* bits cannot complete the next block, the call with Flush is the error
\* UnexpectedEofDuringDecode and the call with NoFlush is Ok with NeedInput.
C4_FlushNeverNeedInput ==
    /\ ret.flush = "Flush" => ret.status # "NeedInput"
    /\ \A out_len \in OutLens :
          \E n \in {Decoder_decode(dec, out_len, "NoFlush")},
             f \in {Decoder_decode(dec, out_len, "Flush")} :
              /\ f.status # "NeedInput"
              /\ (n.err = OK /\ n.status = "NeedInput")
                    <=> f.err = UnexpectedEofDuringDecode

\* A call with Flush has failed on the end of the buffered bits, where the
\* call with NoFlush asks for input.
C4_Witness ==
    /\ ret.flush = "Flush"
    /\ ret.err = UnexpectedEofDuringDecode
    /\ Decoder_decode(dec, ret.out_len, "NoFlush").status = "NeedInput"

AfterPushes(a, d) ==
    push_input(a, SubSeq(d.reader.buf, Len(a.reader.buf) + 1, Len(d.reader.buf)))

\* C6: when decode with NoFlush runs out of buffered bits inside a block it
\* returns NeedInput with the bit cursor, the predictor, both RSI counters,
\* samples_written, the pending bytes and the pending repeat as they were
\* when the block was attempted, and with none of the block's samples output.
C6_NeedInputRollsBack ==
    Returned("NeedInput") =>
        /\ is_some(attempt)
        /\ decode_next_unit(attempt[1]).err = UnexpectedEof
        /\ snapshot(dec) = snapshot(AfterPushes(attempt[1], dec))
        /\ total_in(dec) = total_in(attempt[1])
        /\ Len(sink) = dec.samples_written * dec.bytes_per_sample

\* NeedInput after a block that had consumed bits and counted samples before
\* the bits ran out.
C6_Witness ==
    /\ Returned("NeedInput")
    /\ is_some(attempt)
    /\ \E u \in {decode_next_unit(attempt[1])} :
           /\ u.d.samples_written > dec.samples_written
           /\ u.d.reader.bit_pos > dec.reader.bit_pos
           /\ dec.reader.buf = attempt[1].reader.buf
           /\ u.d.predictor_x # dec.predictor_x

\* C7: after decode has returned Finished, every further call of decode, with
\* any output buffer and either flush mode, returns (0, Finished) and leaves
\* total_in, total_out, avail_in and samples_written as they were.
C7_FinishedIsIdempotent ==
    [][(Returned("Finished") /\ pushed' = pushed) =>
          /\ ret'.err = OK /\ ret'.status = "Finished" /\ ret'.written = 0
          /\ total_in(dec') = total_in(dec)
          /\ total_out(dec') = total_out(dec)
          /\ avail_in(dec') = avail_in(dec)
          /\ dec'.samples_written = dec.samples_written
          /\ sink' = sink]_vars

\* decode has been called with a non-empty buffer after it had returned
\* Finished, with input still buffered.
C7_Witness ==
    ret.again /\ Returned("Finished") /\ ret.out_len > 0 /\ avail_in(dec) > 0

C9_NeedOutputIffFullAndMore ==
    (ret.err = OK /\ ret.status # "") =>
        (ret.status = "NeedOutput"
            <=> (ret.written = ret.out_len /\ Len(sink) < ExpectedLen))

\* C10: once the complete well-formed payload has been pushed, a caller that
\* keeps calling decode with a non-empty output buffer is eventually returned
\* Finished: in no reachable state does a call with a buffer of at least one
\* byte return zero bytes with NeedOutput and leave the decoder as it was, to
\* return the same to every later call.
C10_DecodeNeverStalls ==
    (WellFormed(inp) /\ pushed = Len(inp.payload) /\ ret.err = OK) =>
        \A out_len \in OutLens \ {0}, flush \in {"NoFlush", "Flush"} :
            \A r \in {Decoder_decode(dec, out_len, flush)} :
                ~(r.err = OK /\ r.status = "NeedOutput" /\ r.written = 0 /\ r.d = dec)

\* The number of input bytes holding the bits the reader has consumed.
ConsumedBytes == (bits_read_total(dec.reader) + 7) \div 8

\* C11: when decode returns Finished, total_in is the number of input bytes
\* that hold the consumed bits (the payload length, when the payload has been
\* pushed whole and its last byte holds the last bit read), and the bytes
\* pushed after them are still in the reader's buffer.
C11_TotalInSpansConsumedBits ==
    Returned("Finished") =>
        /\ total_in(dec) = ConsumedBytes
        /\ (pushed = Len(inp.payload) /\ ConsumedBytes = Len(inp.payload))
              => total_in(dec) = Len(inp.payload)
        /\ \E rest \in {SubSeq(inp.payload, ConsumedBytes + 1, pushed)} :
              /\ Len(rest) <= Len(dec.reader.buf)
              /\ rest = SubSeq(dec.reader.buf, Len(dec.reader.buf) - Len(rest) + 1,
                               Len(dec.reader.buf))

\* The decoder d without the bytes of its buffer that follow the payload.
WithoutTrailing(d) ==
    [d EXCEPT !.reader.buf =
        SubSeq(@, 1, Len(@) - (pushed - Min(pushed, inp.required)))]

\* C12: bytes that follow a payload on which decoding reaches Finished change
\* nothing.  The one-shot decode() returns for the payload with the bytes
\* after it what it returns for the payload alone; so does the single pass of
\* the streaming Decoder; and every successful call of Decoder::decode that
\* does not ask for input returns, with those bytes buffered, the status and
\* the bytes it returns without them, and leaves the decoder as it would be
\* left without them.
C12_TrailingBytesIgnored ==
    /\ (Len(inp.payload) > inp.required /\ WellFormed(Required(inp))) =>
          /\ decode(inp.payload, inp.params, inp.output_samples)
                = decode(Required(inp).payload, inp.params, inp.output_samples)
          /\ SinglePass(inp) = SinglePass(Required(inp))
    /\ pushed > inp.required =>
       \A out_len \in OutLens, flush \in {"NoFlush", "Flush"} :
          \E r \in {Decoder_decode(WithoutTrailing(dec), out_len, flush)},
             t \in {Decoder_decode(dec, out_len, flush)} :
              (r.err = OK /\ r.status # "NeedInput") =>
                  /\ t.err = OK
                  /\ t.status = r.status
                  /\ t.bytes = r.bytes
                  /\ [t.d EXCEPT !.reader.buf = r.d.reader.buf] = r.d
                  /\ Len(t.d.reader.buf) - Len(r.d.reader.buf)
                        = Len(dec.reader.buf) - Len(WithoutTrailing(dec).reader.buf)

\* Finished has been returned to a caller that had pushed, after a payload
\* that decodes, the bytes that follow it, and those bytes are still buffered.
C12_Witness ==
    /\ Returned("Finished")
    /\ WellFormed(Required(inp))
    /\ pushed = Len(inp.payload)
    /\ pushed > inp.required
    /\ avail_in(dec) > 0
    /\ sink = OneShot(Required(inp))

-----------------------------------------------------------------------------
(* The functions of the public interface, called once each on arguments    *)
(* drawn from the parameter space.  The variables are read as: inp the     *)
(* arguments, ret the call made and its result, dec the Decoder returned   *)
(* by Decoder::new, sink the output bytes.                                 *)

\* Decoder::new: [err, d], d being Some(decoder) of an Ok return.
Decoder_new_result(params, output_samples) ==
    IF validate_params(params) # OK
    THEN [err |-> validate_params(params), d |-> None]
    ELSE [err |-> OK, d |-> Some(Decoder_new(params, output_samples))]

\* (ccsds_flags & (1 << bit)) != 0
bit_is_set(ccsds_flags, bit) == AndNat(ccsds_flags, Pow2(bit)) # 0

\* flags_from_grib2_ccsds_flags with the flags of bits 1 and 2 exchanged.
flags_from_grib2_ccsds_flags_swapped(ccsds_flags) ==
    (IF bit_is_set(ccsds_flags, 0) THEN {"DATA_SIGNED"} ELSE {})
    \cup (IF bit_is_set(ccsds_flags, 1) THEN {"MSB"} ELSE {})
    \cup (IF bit_is_set(ccsds_flags, 2) THEN {"DATA_3BYTE"} ELSE {})
    \cup (IF bit_is_set(ccsds_flags, 3) THEN {"DATA_PREPROCESS"} ELSE {})
    \cup (IF bit_is_set(ccsds_flags, 4) THEN {"RESTRICTED"} ELSE {})
    \cup (IF bit_is_set(ccsds_flags, 5) THEN {"PAD_RSI"} ELSE {})

flags_from_grib2_ccsds_flags(ccsds_flags) ==
    (IF bit_is_set(ccsds_flags, 0) THEN {"DATA_SIGNED"} ELSE {})
    \cup (IF bit_is_set(ccsds_flags, 1) THEN {"DATA_3BYTE"} ELSE {})
    \cup (IF bit_is_set(ccsds_flags, 2) THEN {"MSB"} ELSE {})
    \cup (IF bit_is_set(ccsds_flags, 3) THEN {"DATA_PREPROCESS"} ELSE {})
    \cup (IF bit_is_set(ccsds_flags, 4) THEN {"RESTRICTED"} ELSE {})
    \cup (IF bit_is_set(ccsds_flags, 5) THEN {"PAD_RSI"} ELSE {})

\* The most samples a call is asked for.
MaxSamples == 2

\* A payload of one zero-block run of one block: the id, the selector 0 and
\* the unary 0.
ZeroBlockBits(params) == Bits(0, id_len(params)) \o <<0>> \o Unary(0)

\* AecParams::new(n, J, R, flags_from_grib2_ccsds_flags(c)), a sample count
\* and a payload.
ApiInput(n, J, R, c, k) ==
    [params |-> AecParams_new(n, J, R, flags_from_grib2_ccsds_flags(c)),
     ccsds_flags |-> c,
     output_samples |-> k,
     payload |-> Pack(ZeroBlockBits(AecParams_new(n, J, R,
                                                  flags_from_grib2_ccsds_flags(c)))),
     required |-> 1]

\* bits_per_sample is a u8, block_size and rsi are u32.
ApiInputs ==
    { ApiInput(n, J, R, 0, k) :
        n \in (0..33) \cup {255}, J \in {0, 7, 8, 16, 32, 64, 128},
        R \in {0, 1, 128}, k \in {0, 1} }
    \cup { ApiInput(n, 8, 1, c, k) :
             n \in 1..32, c \in {0, 1, 2, 4, 5, 6, 16, 24}, k \in 1..MaxSamples }
    \cup { ApiInput(12, 32, 128, c, 0) : c \in 0..255 }

\* i64 values passed to write_sample.
SampleValues == {-2147483647 - 1, -300, 74565, 2147483647}

ApiReturn(call, err, value) == [call |-> call, err |-> err, value |-> value]

ApiInit ==
    /\ inp \in ApiInputs
    /\ dec = None
    /\ pushed = 0
    /\ sink = <<>>
    /\ ret = ApiReturn("", OK, <<>>)
    /\ attempt = None

\* flags_from_grib2_ccsds_flags(ccsds_flags)
FlagsFromGrib2 ==
    /\ ret.call = ""
    /\ ret' = ApiReturn("flags_from_grib2_ccsds_flags", OK,
                        flags_from_grib2_ccsds_flags(inp.ccsds_flags))
    /\ UNCHANGED <<inp, dec, pushed, sink, attempt>>

\* Decoder::new(params, output_samples)
New ==
    /\ ret.call = ""
    /\ \E r \in {Decoder_new_result(inp.params, inp.output_samples)} :
           /\ dec' = r.d
           /\ ret' = ApiReturn("Decoder::new", r.err, <<>>)
    /\ UNCHANGED <<inp, pushed, sink, attempt>>

\* decode(input, params, output_samples), input being the payload or empty.
OneShotDecode(input) ==
    /\ ret.call = ""
    /\ \E r \in {decode(input, inp.params, inp.output_samples)} :
           /\ sink' = r.out
           /\ ret' = ApiReturn("decode", r.err, input)
    /\ UNCHANGED <<inp, dec, pushed, attempt>>

\* decode_into(input, params, output_samples, output), output.len() = out_len.
DecodeInto(input, out_len) ==
    /\ ret.call = ""
    /\ \E w \in {decode_into(input, inp.params, inp.output_samples, out_len)} :
           /\ sink' = w.outb
           /\ ret' = ApiReturn("decode_into", w.err, out_len)
    /\ UNCHANGED <<inp, dec, pushed, attempt>>

\* write_sample(out, value, params) on the OutBuf of decode_into, which has
\* validated params and allocated output_samples * bytes_per_sample bytes.
WriteSample(value) ==
    /\ ret.call \in {"", "write_sample"}
    /\ ret.err = OK
    /\ validate_params(inp.params) = OK
    /\ \E w \in {write_sample([err |-> OK, outb |-> sink,
                               cap |-> inp.output_samples * bytes_per_sample(inp.params)],
                              value, inp.params)} :
           /\ sink' = w.outb
           /\ ret' = ApiReturn("write_sample", w.err, value)
    /\ UNCHANGED <<inp, dec, pushed, attempt>>

ApiNext ==
    \/ FlagsFromGrib2
    \/ New
    \/ \E input \in {<<>>, inp.payload} : OneShotDecode(input)
    \/ \E input \in {<<>>, inp.payload},
          out_len \in {0, inp.output_samples * bytes_per_sample(inp.params)} :
           DecodeInto(input, out_len)
    \/ \E value \in SampleValues : WriteSample(value)

ApiSpec == ApiInit /\ [][ApiNext]_vars

\* The InvalidInput errors that reject a parameter set.
ParamsInvalidInput ==
    { InvalidInput("bits_per_sample must be 1..=32"),
      InvalidInput("block_size must be > 0"),
      InvalidInput("rsi must be > 0") }

\* The Unsupported error that rejects a parameter set.
ParamsUnsupported == { Unsupported("block_size must be one of 8,16,32,64") }

\* C13: Decoder::new, decode and decode_into return, whatever the input and
\* the output buffer, InvalidInput for bits_per_sample outside 1..=32, for
\* rsi = 0 and for block_size = 0, Unsupported for any other block_size
\* outside {8, 16, 32, 64}, and reject no parameter set with bits_per_sample
\* in 1..=32, block_size in {8, 16, 32, 64} and rsi >= 1.
C13_ParamsValidatedFirst ==
    ret.call \in {"Decoder::new", "decode", "decode_into"} =>
        LET n == inp.params.bits_per_sample
            J == inp.params.block_size
            R == inp.params.rsi
        IN  /\ (~(n \in 1..32) \/ R = 0 \/ J = 0) => ret.err \in ParamsInvalidInput
            /\ (n \in 1..32 /\ R >= 1 /\ ~(J \in {0, 8, 16, 32, 64}))
                  => ret.err \in ParamsUnsupported
            /\ (n \in 1..32 /\ R >= 1 /\ J \in {8, 16, 32, 64}) =>
                  /\ ~(ret.err \in ParamsInvalidInput \cup ParamsUnsupported)
                  /\ ret.call = "Decoder::new" => (ret.err = OK /\ is_some(dec))
            /\ ret.err \in ParamsInvalidInput \cup ParamsUnsupported =>
                  (sink = <<>> /\ dec = None)

\* A call that was given a payload (decode) or an output buffer of the wrong
\* length (decode_into) has returned the error of an rsi of 0.
C13_Witness ==
    /\ inp.params.rsi = 0
    /\ inp.params.bits_per_sample \in 1..32
    /\ inp.params.block_size = 64
    /\ \/ ret.call = "decode" /\ ret.value = inp.payload
       \/ /\ ret.call = "decode_into"
          /\ ret.value # inp.output_samples * bytes_per_sample(inp.params)
    /\ ret.err = InvalidInput("rsi must be > 0")

\* The documented width of a sample in bytes.
DocumentedBytes(params) ==
    LET n == params.bits_per_sample
    IN  CASE n \in 1..8 -> 1
          [] n \in 9..16 -> 2
          [] n \in 17..24 -> IF "DATA_3BYTE" \in params.flags THEN 3 ELSE 4
          [] n \in 25..32 -> 4

FlagOfBit ==
    [b \in 0..5 |->
        CASE b = 0 -> "DATA_SIGNED"
          [] b = 1 -> "DATA_3BYTE"
          [] b = 2 -> "MSB"
          [] b = 3 -> "DATA_PREPROCESS"
          [] b = 4 -> "RESTRICTED"
          [] b = 5 -> "PAD_RSI"]

\* C16: for each of the 256 bytes, flags_from_grib2_ccsds_flags returns the
\* flags whose bits are set, bit 0 being DATA_SIGNED, bit 1 DATA_3BYTE, bit 2
\* MSB, bit 3 DATA_PREPROCESS, bit 4 RESTRICTED and bit 5 PAD_RSI, and nothing
\* else: bits 6 and 7 have no effect.
C16_FlagsBitForBit ==
    ret.call = "flags_from_grib2_ccsds_flags" =>
        /\ inp.ccsds_flags \in 0..255
        /\ \A b \in 0..5 :
              FlagOfBit[b] \in ret.value <=> (inp.ccsds_flags \div Pow2(b)) % 2 = 1
        /\ ret.value \subseteq {FlagOfBit[b] : b \in 0..5}
        /\ ret.value = inp.params.flags

\* The byte of the crate's smoke test with bit 7 added: every flag but MSB.
C16_Witness ==
    /\ ret.call = "flags_from_grib2_ccsds_flags"
    /\ inp.ccsds_flags = 187
    /\ ret.value = {"DATA_SIGNED", "DATA_3BYTE", "DATA_PREPROCESS", "RESTRICTED", "PAD_RSI"}

\* Bit k of the two's complement of the 32-bit integer v.
TwosComplementBit(v, k) ==
    IF k >= 31 THEN (IF v < 0 THEN 1 ELSE 0) ELSE (v \div Pow2(k)) % 2

\* Bit k of sample i of the output bytes out under params: the byte of
\* significance k \div 8 is the last of the sample's bytes_per_sample bytes
\* less that many if MSB is set, the first plus that many otherwise.
SampleBit(out, params, i, k) ==
    LET B == bytes_per_sample(params)
        j == k \div 8
        at == i * B + (IF "MSB" \in params.flags THEN B - 1 - j ELSE j) + 1
    IN  (out[at] \div Pow2(k % 8)) % 2

\* C17: a sample written as the i-th of the output occupies the bytes
\* [i*B, (i+1)*B) and leaves the bytes before them as they were; its bits
\* below n are those of the value's two's complement (of 0 for a negative
\* value without DATA_SIGNED), all 32 of them when n = 32, its bits from n up
\* are 0, and its bytes stand most significant first if MSB is set and least
\* significant first otherwise.
C17_SampleLayout ==
    [][(ret'.call = "write_sample" /\ ret'.err = OK) =>
          LET B == bytes_per_sample(inp.params)
              n == inp.params.bits_per_sample
              v == IF "DATA_SIGNED" \in inp.params.flags
                   THEN ret'.value ELSE Max(ret'.value, 0)
          IN  /\ Len(sink) % B = 0
              /\ Len(sink') = Len(sink) + B
              /\ SubSeq(sink', 1, Len(sink)) = sink
              /\ \A k \in 0..(8 * B - 1) :
                    SampleBit(sink', inp.params, Len(sink) \div B, k)
                        = IF k < n THEN TwosComplementBit(v, k) ELSE 0]_vars

\* The second of two samples of 32 bits, signed and least significant byte
\* first, has been written with the value -300.
C17_Witness ==
    /\ ret.call = "write_sample"
    /\ ret.err = OK
    /\ ret.value = -300
    /\ inp.params.bits_per_sample = 32
    /\ inp.params.flags = {"DATA_SIGNED"}
    /\ Len(sink) = 8
    /\ SubSeq(sink, 5, 8) = <<212, 254, 255, 255>>

\* The coded values of a Second Extension block that follows the reference
\* of its RSI, given the unary symbols read: the pairs in order, without the
\* first element of the first.
AfterReference(ms) ==
    Tail(Concat([i \in 1..Len(ms) |-> second_extension_pair(ms[i])]))

\* The samples that the coded values ds stand for after the sample x_prev.
RECURSIVE Reconstructed(_, _, _)
Reconstructed(x_prev, ds, params) ==
    IF Len(ds) = 0 THEN <<>>
    ELSE Bind(inverse_preprocess_step(x_prev, Head(ds), params), LAMBDA x :
         <<x>> \o Reconstructed(x, Tail(ds), params))

\* The input whose first block, at the start of an RSI with PREPROCESS, is a
\* Second Extension block: the reference 1 and the unary symbols 1, 2, 0, 1.
SecondExtensionFirst == Input(ParamsPre, 16, PreSecondExtensionBits)

\* The 8 samples of that block: the reference in slot 0, then the samples
\* of the coded values b1, a2, b2, a3, b3, a4, b4.
SecondExtensionFirstBlock ==
    <<1>> \o Reconstructed(1, AfterReference(<<1, 2, 0, 1>>), ParamsPre)

\* C18: with PREPROCESS on and a Second Extension block first in an RSI, the
\* reference is sample 0 of the block and the first pair (a, b) gives only b
\* to the output, in the output of the one-shot decode() and in the bytes
\* that the streaming Decoder returns.
C18_FirstPairEmitsOnlyB ==
    inp = SecondExtensionFirst =>
        /\ SubSeq(OneShot(inp), 1, 8) = SecondExtensionFirstBlock
        /\ \A i \in 1..Min(Len(sink), 8) : sink[i] = SecondExtensionFirstBlock[i]

\* The two Rice split blocks of RiceBits, each the only block of its RSI:
\* [k, ref, qs, rs]: the reference as read and, of the 7 coded slots that
\* follow it, the quotients and the k-bit remainders.
RiceBlocks ==
    << [k |-> 0, ref |-> 5, qs |-> <<1, 0, 3, 0, 0, 2, 0>>,
        rs |-> <<0, 0, 0, 0, 0, 0, 0>>],
       [k |-> 1, ref |-> 2, qs |-> <<0, 1, 0, 2, 0, 0, 1>>,
        rs |-> <<1, 0, 1, 1, 0, 0, 1>>] >>

\* The bits of a block: the id k + 1, the reference, the N quotients and,
\* if k > 0, the N remainders.
RiceBlockLen(b) ==
    2 + 3 + Len(Unaries(b.qs)) + (IF b.k > 0 THEN Len(b.qs) * b.k ELSE 0)

\* The samples of a block: the reference, then those of the coded values
\* d_i = (q_i << k) | r_i.
RiceBlockSamples(b) ==
    Bind(sign_extend(b.ref, 3), LAMBDA x :
    <<x>> \o Reconstructed(x, [i \in 1..Len(b.qs) |-> b.qs[i] * Pow2(b.k) + b.rs[i]],
                           ParamsRice))

\* The samples of both blocks as the output bytes of 3-bit signed samples.
RiceBytes ==
    Bind(RiceBlockSamples(RiceBlocks[1]) \o RiceBlockSamples(RiceBlocks[2]), LAMBDA xs :
    [i \in 1..Len(xs) |-> xs[i] % 8])

\* C19: of a Rice split block with k = id - 1 the decoder reads N unary
\* quotients and then, only if k > 0, N k-bit remainders, N being J less one
\* for the reference consumed in the block, and the i-th coded value is
\* (q_i << k) | r_i: the output of the one-shot decode() and the bytes the
\* streaming Decoder returns are the samples of these coded values, and the
\* streaming Decoder's cursor stands after 0, 1 or 2 whole blocks.
C19_RiceTwoPass ==
    (inp.params = ParamsRice /\ SubSeq(inp.payload, 1, inp.required) = Pack(RiceBits)) =>
        /\ OneShot(inp) = SubSeq(RiceBytes, 1, inp.output_samples)
        /\ \A i \in 1..Len(sink) : sink[i] = RiceBytes[i]
        /\ bits_read_total(dec.reader)
              \in {0, RiceBlockLen(RiceBlocks[1]),
                   RiceBlockLen(RiceBlocks[1]) + RiceBlockLen(RiceBlocks[2])}

\* C20: block_index_within_rsi is less than rsi in every state of the
\* streaming Decoder and when the loop of the one-shot decode_into ends,
\* with PREPROCESS and without.
C20_BlockIndexBelowRsi ==
    /\ dec.block_index_within_rsi < dec.params.rsi
    /\ decode_into(inp.payload, inp.params, inp.output_samples,
                   inp.output_samples * bytes_per_sample(inp.params)).block_index_within_rsi
          < inp.params.rsi

\* The samples the streaming Decoder has decoded: those it has counted and
\* those of a zero-block run it has yet to deliver.
DecodedSamples ==
    dec.samples_written
    + (IF is_some(dec.pending_repeat) THEN dec.pending_repeat[1].remaining ELSE 0)

\* The samples of one RSI: rsi blocks of block_size samples.
RsiSamples == inp.params.rsi * inp.params.block_size

\* C21: with PAD_RSI set, with PREPROCESS or without, the bit cursor stands
\* at a multiple of 8 after the block that ends an RSI: in the streaming
\* Decoder whenever it has decoded a whole number of RSIs, and in the one-shot
\* decode_into when it returns after a whole number of RSIs.
C21_PadRsiAligns ==
    "PAD_RSI" \in inp.params.flags =>
        /\ (DecodedSamples > 0 /\ DecodedSamples % RsiSamples = 0)
              => bits_read_total(dec.reader) % 8 = 0
        /\ \E w \in {decode_into(inp.payload, inp.params, inp.output_samples,
                                 inp.output_samples * bytes_per_sample(inp.params))} :
              (w.err = OK /\ inp.output_samples % RsiSamples = 0) => w.bit_pos % 8 = 0

-----------------------------------------------------------------------------
(* Whole payloads, block by block: the one-shot decode_into on a payload,   *)
(* and a streaming Decoder given the payload by one push_input and a buffer *)
(* of the full length.                                                      *)

\* An input of a family: kind names the family and args its parameters.
Unit(kind, args, params, output_samples, bits) ==
    [kind |-> kind, args |-> args, params |-> params,
     output_samples |-> output_samples, payload |-> Pack(bits),
     required |-> Len(Pack(bits))]

\* n = 2, RESTRICTED (a 1-bit id), J = 8, the flags of ccsds_flags c.
ParamsRun(R, c) == AecParams_new(2, 8, R, {"RESTRICTED"} \cup flags_from_grib2_ccsds_flags(c))

\* b Uncompressed blocks.
RECURSIVE UncompressedBlocks(_)
UncompressedBlocks(b) ==
    IF b = 0 THEN <<>> ELSE UncompressedBits \o UncompressedBlocks(b - 1)

\* A zero-block run of unary symbol fs after b blocks: the id 0, the selector
\* 0, the reference 2 if the block starts an RSI with PREPROCESS, and the
\* symbol.
ZeroRunBits(params, b, fs) ==
    <<0, 0>>
    \o (IF "DATA_PREPROCESS" \in params.flags /\ b % params.rsi = 0
        THEN Bits(2, 2) ELSE <<>>)
    \o Unary(fs)

\* The blocks that the run of z = fs + 1 read at block index b covers.
RunBlocks(z, b, R) ==
    IF z < ROS THEN z
    ELSE IF z = ROS THEN Min(R - b, 64 - (b % 64))
    ELSE z - 1

\* b Uncompressed blocks and a zero-block run of symbol fs, read at block
\* index b mod R, for an output of the blocks before the run and `owed`
\* samples more, or, with owed = 0, of all the blocks of the run.
ZeroRunInput(R, c, b, fs, owed) ==
    Unit("zero_run", <<b, fs>>, ParamsRun(R, c),
         IF owed = 0 THEN 8 * (b + RunBlocks(fs + 1, b % R, R)) ELSE 8 * b + owed,
         UncompressedBlocks(b) \o ZeroRunBits(ParamsRun(R, c), b, fs))

ZeroRunInputs ==
    { ZeroRunInput(4, c, b, fs, owed) :
        c \in {0, 8}, b \in 0..3, fs \in 0..6, owed \in {3, 8} }
    \cup { ZeroRunInput(4, c, b, fs, 0) : c \in {0, 8}, b \in 0..3, fs \in 0..2 }
    \cup { ZeroRunInput(4, c, b, 4, 0) : c \in {0, 8}, b \in 1..3 }
    \cup { ZeroRunInput(2, c, b, 4, 0) : c \in {0, 8}, b \in 2..3 }
    \cup { ZeroRunInput(128, c, b, 4, 3) : c \in {0, 8}, b \in {0, 1} }

\* The samples that out holds: bytes_per_sample bytes each, least
\* significant first.
RECURSIVE LsbValue(_)
LsbValue(bytes) ==
    IF Len(bytes) = 0 THEN 0 ELSE Head(bytes) + 256 * LsbValue(Tail(bytes))

Samples(out, params) ==
    [i \in 1..(Len(out) \div bytes_per_sample(params)) |->
        LsbValue(SubSeq(out, (i - 1) * bytes_per_sample(params) + 1,
                        i * bytes_per_sample(params)))]

\* Parameters of each id length: n = 2 and n = 3 with RESTRICTED, n = 8,
\* n = 16 and n = 17; J = 8, no PREPROCESS.
DispatchParams ==
    { AecParams_new(2, 8, 4, {"RESTRICTED"}), AecParams_new(3, 8, 4, {"RESTRICTED"}),
      AecParams_new(8, 8, 4, {}), AecParams_new(16, 8, 4, {}),
      AecParams_new(17, 8, 4, {}) }

\* Eight raw samples of n bits, eight quotients, and eight remainders of k
\* bits.
RawFields(n) == [i \in 1..8 |-> (3 * i) % Pow2(Min(n, 8))]
Quotients == <<1, 0, 0, 2, 0, 1, 0, 0>>
Remainders(k) == [i \in 1..8 |-> (5 * i) % Pow2(Min(k, 8))]

\* A block of the option that id selects among the 2^L ids: id 0 a
\* zero-block run of one block, the last id an Uncompressed block, the ids
\* between them Rice split blocks with k = id - 1.
DispatchBits(id, L, n) ==
    Bits(id, L)
    \o (IF id = 0 THEN <<0>> \o Unary(0)
        ELSE IF id = Pow2(L) - 1 THEN Fields(RawFields(n), n)
        ELSE Unaries(Quotients)
             \o (IF id - 1 > 0 THEN Fields(Remainders(id - 1), id - 1) ELSE <<>>))

\* The samples of that block: the values (q << k) | r of a Rice split block
\* are written as n bits.
DispatchSamples(id, L, n) ==
    IF id = 0 THEN [i \in 1..8 |-> 0]
    ELSE IF id = Pow2(L) - 1 THEN RawFields(n)
    ELSE [i \in 1..8 |-> (Quotients[i] * Pow2(id - 1) + Remainders(id - 1)[i]) % Pow2(n)]

DispatchInputs ==
    UNION { { Unit("dispatch", <<id>>, p, 8,
                   DispatchBits(id, id_len(p), p.bits_per_sample)) :
                id \in 0..(Pow2(id_len(p)) - 1) } : p \in DispatchParams }

\* n = 3 with RESTRICTED (a 2-bit id) and PREPROCESS, J = 8, R = 2.
ParamsRef == AecParams_new(3, 8, 2, {"RESTRICTED", "DATA_PREPROCESS"})

\* The first block of an RSI with PREPROCESS, its reference 5 where the
\* option has it: after the selector of a zero-block run (option 0) or of a
\* Second Extension block (1), after the id of an Uncompressed block (2) or
\* of a Rice split block with k = 0 (3) or k = 1 (4).
ReferenceBits(option) ==
    IF option = 0 THEN Bits(0, 2) \o <<0>> \o Bits(5, 3) \o Unary(0)
    ELSE IF option = 1 THEN Bits(0, 2) \o <<1>> \o Bits(5, 3) \o Unaries(<<1, 2, 0, 1>>)
    ELSE IF option = 2 THEN Bits(3, 2) \o Bits(5, 3) \o Fields(<<1, 2, 3, 4, 5, 6, 7>>, 3)
    ELSE IF option = 3 THEN Bits(1, 2) \o Bits(5, 3) \o Unaries(<<1, 0, 2, 0, 0, 1, 0>>)
    ELSE Bits(2, 2) \o Bits(5, 3) \o Unaries(<<1, 0, 2, 0, 0, 1, 0>>)
         \o Fields(<<1, 0, 1, 1, 0, 0, 1>>, 1)

ReferenceInputs ==
    { Unit("reference", <<option, Len(ReferenceBits(option))>>, ParamsRef, 8,
           ReferenceBits(option)) : option \in 0..4 }

\* n = 3 and n = 8 (a 3-bit id), J = 8, R = 2, with and without PREPROCESS
\* and DATA_SIGNED.
RawParams ==
    { AecParams_new(n, 8, 2, f) :
        n \in {3, 8},
        f \in { {}, {"DATA_SIGNED"}, {"DATA_PREPROCESS"},
                {"DATA_SIGNED", "DATA_PREPROCESS"} } }

\* The eight raw fields of an Uncompressed block, of n bits each.
RawBlocks(n) ==
    { [i \in 1..8 |-> (a * i + c) % Pow2(n)] : a \in {3, 5}, c \in {2, 5} }

\* An Uncompressed block: the id 7 and the fields.
RawInputs ==
    UNION { { Unit("uncompressed", fields, p, 8,
                   Bits(7, 3) \o Fields(fields, p.bits_per_sample)) :
                fields \in RawBlocks(p.bits_per_sample) } : p \in RawParams }

\* n = 8 (a 3-bit id), J = 8, R = 2, no flags.
ParamsByte == AecParams_new(8, 8, 2, {})

\* A Second Extension block whose first unary symbol is m: the id 0, the
\* selector 1 and the symbols m, 0, 0, 0.
PairInputs ==
    { Unit("second_extension", <<m>>, ParamsByte, 8,
           Bits(0, 3) \o <<1>> \o Unaries(<<m, 0, 0, 0>>)) : m \in 0..93 }

\* n = 17 (a 5-bit id, 4 bytes a sample), J = 8, R = 2, no flags.
ParamsLong == AecParams_new(17, 8, 2, {})

\* A Rice split block of split k whose first quotient is q: the id k + 1,
\* the quotients q, 0, .., 0 and eight remainders of k bits.
ShiftInputs ==
    UNION { { Unit("rice_shift", <<k, q>>, ParamsLong, 8,
                   Bits(k + 1, 5) \o Unaries(<<q, 0, 0, 0, 0, 0, 0, 0>>)
                   \o Fields(<<1, 2, 3, 4, 5, 6, 7, 8>>, k)) :
                q \in {0, 1, Pow2(32 - k), Pow2(32 - k) + 1} } : k \in {28, 29} }

\* n = 8 with PREPROCESS.
ParamsBytePre == AecParams_new(8, 8, 2, {"DATA_PREPROCESS"})

\* Payloads of n = 8 (a 3-bit id) that end inside a read, by the read:
\* 1 the block id (an empty payload); 2 the selector, after a zero-block
\* run of 5 bits and the id 0; 3 the reference, after the id 7 with
\* PREPROCESS; 4 the unary symbol of a zero-block run; 5 the unary symbol of
\* a Second Extension block; 6 a Rice split quotient, k = 0; 7 a Rice split
\* remainder, k = 1, after the 8 quotients; 8 a raw sample.
EofInputs ==
    { Unit("eof", <<1>>, ParamsByte, 8, <<>>),
      Unit("eof", <<2>>, ParamsByte, 16, Bits(0, 3) \o <<0>> \o Unary(0) \o Bits(0, 3)),
      Unit("eof", <<3>>, ParamsBytePre, 8, Bits(7, 3) \o Bits(0, 5)),
      Unit("eof", <<4>>, ParamsByte, 8, Bits(0, 3) \o <<0>> \o Bits(0, 4)),
      Unit("eof", <<5>>, ParamsByte, 8, Bits(0, 3) \o <<1>> \o Bits(0, 4)),
      Unit("eof", <<6>>, ParamsByte, 8, Bits(1, 3) \o Bits(0, 5)),
      Unit("eof", <<7>>, ParamsByte, 8,
           Bits(2, 3) \o Unaries(<<0, 0, 0, 0, 0, 0, 0, 0>>) \o Bits(0, 5)),
      Unit("eof", <<8>>, ParamsByte, 8, Bits(7, 3) \o Bits(0, 5)) }

UnitInputs ==
    ZeroRunInputs \cup DispatchInputs \cup ReferenceInputs \cup RawInputs
    \cup PairInputs \cup ShiftInputs \cup EofInputs

UnitInit ==
    /\ inp \in UnitInputs
    /\ dec = Decoder_new(inp.params, inp.output_samples)
    /\ pushed = 0
    /\ sink = <<>>
    /\ ret = NoReturn
    /\ attempt = None

\* decode_into(&payload, params, output_samples, &mut output) with output of
\* the full length: attempt holds its locals at the return, sink what stands
\* in output.
UnitDecodeInto ==
    /\ ret = NoReturn
    /\ pushed = 0
    /\ \E w \in {decode_into(inp.payload, inp.params, inp.output_samples, ExpectedLen)} :
           /\ attempt' = Some(w)
           /\ sink' = w.outb
           /\ ret' = [NoReturn EXCEPT !.err = w.err, !.status = "decode_into",
                                      !.out_len = ExpectedLen, !.flush = "Flush"]
    /\ UNCHANGED <<inp, dec, pushed>>

\* dec.push_input(&payload)
UnitPushInput ==
    /\ ret.status # "decode_into"
    /\ pushed = 0
    /\ PushInput(Len(inp.payload))

\* dec.decode(&mut out, flush) with out of the full length.
UnitDecode(flush) ==
    /\ ret.status # "decode_into"
    /\ pushed = Len(inp.payload)
    /\ Decode(ExpectedLen, flush)

UnitNext ==
    \/ UnitDecodeInto
    \/ UnitPushInput
    \/ \E flush \in {"NoFlush", "Flush"} : UnitDecode(flush)

UnitSpec == UnitInit /\ [][UnitNext]_vars

\* decode_into has returned.
OneShotReturned == ret.status = "decode_into"

\* The block index at which the run of a zero_run input is read.
RunIndex == inp.args[1] % inp.params.rsi

\* The samples before the run of a zero_run input: those of the b blocks,
\* and the reference if the run starts an RSI with PREPROCESS.
RunStart ==
    8 * inp.args[1]
    + (IF "DATA_PREPROCESS" \in inp.params.flags /\ RunIndex = 0 THEN 1 ELSE 0)

\* The samples of the run: block_size times its blocks, less the reference
\* that its first block gave, and no more than the output still takes.
RunSamples ==
    Min(8 * RunBlocks(inp.args[2] + 1, RunIndex, inp.params.rsi)
            - (RunStart - 8 * inp.args[1]),
        inp.output_samples - RunStart)

\* The block index after the run: advanced by its blocks, modulo rsi when it
\* reaches rsi.
RunEndIndex ==
    Bind(RunIndex + RunBlocks(inp.args[2] + 1, RunIndex, inp.params.rsi), LAMBDA e :
         IF e >= inp.params.rsi THEN e % inp.params.rsi ELSE e)

\* out holds, after the samples before the run, the samples of the run, each
\* of coded value 0: the value 0, or with PREPROCESS the sample before it.
RunOutput(out) ==
    /\ Len(out) = RunStart + RunSamples
    /\ \A i \in (RunStart + 1)..(RunStart + RunSamples) :
          out[i] = IF "DATA_PREPROCESS" \in inp.params.flags THEN out[i - 1] ELSE 0

\* C22: a zero-block run of symbol fs, z = fs + 1, read at block index b
\* covers z blocks if z < 5, min(R - b, 64 - (b mod 64)) if z = 5 and z - 1 if
\* z > 5; it gives J times that many samples of coded value 0, one fewer if
\* its first block gave the reference and never more than the output still
\* takes, and advances block_index_within_rsi by that many blocks, modulo R
\* when it reaches R: in decode_into and in the streaming Decoder.
C22_ZeroRunLength ==
    inp.kind = "zero_run" =>
        /\ OneShotReturned =>
              /\ ret.err = OK
              /\ RunOutput(sink)
              /\ attempt[1].block_index_within_rsi = RunEndIndex
        /\ (~OneShotReturned /\ ret # NoReturn) =>
              /\ ret.err = OK
              /\ Len(sink) = ExpectedLen
              /\ RunOutput(sink)
              /\ dec.block_index_within_rsi = RunEndIndex

\* C23: the L-bit id selects the block option: with M = 2^L - 1, id 0 is a
\* Low-Entropy block, 1 <= id <= M - 1 a Rice split block with k = id - 1 and
\* id = M an Uncompressed block; with L = 1, id 1 is Uncompressed and no id
\* is Rice split. A block laid out as the option of its id decodes, in
\* decode_into and in the streaming Decoder, to the samples that the option
\* gives.
C23_IdSelectsOption ==
    (inp.kind = "dispatch" /\ ret # NoReturn) =>
        /\ ret.err = OK
        /\ Samples(sink, inp.params)
             = DispatchSamples(inp.args[1], id_len(inp.params), inp.params.bits_per_sample)

\* L = 1: the block of id 1 has been decoded as an Uncompressed block.
C23_Witness ==
    /\ inp.kind = "dispatch" /\ inp.args = <<1>> /\ id_len(inp.params) = 1
    /\ ret # NoReturn
    /\ Samples(sink, inp.params) = RawFields(2)

\* C24: the id length of a decoder is 5 for n > 16, 4 for 8 < n <= 16 and 3
\* for n <= 8, except that with RESTRICTED and n <= 4 it is 1 for n <= 2 and
\* 2 for n in {3, 4}; for n > 4 RESTRICTED changes nothing.
C24_IdLen ==
    (ret.call = "Decoder::new" /\ ret.err = OK) =>
        \E n \in {inp.params.bits_per_sample} :
            /\ dec[1].id_len =
                  IF "RESTRICTED" \in inp.params.flags /\ n <= 4
                  THEN (IF n <= 2 THEN 1 ELSE 2)
                  ELSE IF n > 16 THEN 5 ELSE IF n > 8 THEN 4 ELSE 3
            /\ n > 4 =>
                  dec[1].id_len
                    = Decoder_new([inp.params EXCEPT !.flags = @ \ {"RESTRICTED"}],
                                  inp.output_samples).id_len

\* A decoder of RESTRICTED 3-bit samples has been made, with a 2-bit id.
C24_Witness ==
    /\ ret.call = "Decoder::new" /\ ret.err = OK
    /\ "RESTRICTED" \in inp.params.flags /\ inp.params.bits_per_sample = 3
    /\ dec[1].id_len = 2

\* The bit cursor of the call that returned last.
Cursor ==
    IF OneShotReturned THEN attempt[1].bit_pos ELSE bits_read_total(dec.reader)

\* C25: in the first block of an RSI with PREPROCESS the n-bit reference is
\* read after the selector bit, before the unary symbol, when id = 0, and
\* right after the id, before the raw samples or the quotients, when the
\* block is Uncompressed or Rice split: a block laid out so decodes, in
\* decode_into and in the streaming Decoder, with that reference as its first
\* sample and with the cursor at the end of the block.
C25_ReferencePlacement ==
    (inp.kind = "reference" /\ ret # NoReturn) =>
        /\ ret.err = OK
        /\ Len(sink) = 8
        /\ sink[1] = 5
        /\ Cursor = inp.args[2]

\* A Second Extension block with the reference after its selector has been
\* decoded.
C25_Witness ==
    /\ inp.kind = "reference" /\ inp.args[1] = 1
    /\ ret # NoReturn
    /\ sink[1] = 5

\* The reference that a raw field stands for: the field as a two's
\* complement number of n bits if DATA_SIGNED.
ReferenceValue(raw, params) ==
    IF "DATA_SIGNED" \in params.flags /\ raw >= Pow2(params.bits_per_sample - 1)
    THEN raw - Pow2(params.bits_per_sample)
    ELSE raw

\* The samples of an Uncompressed block, as n-bit fields: without PREPROCESS
\* its raw fields; with PREPROCESS, at the start of an RSI, the first field
\* and the samples that the others stand for after it.
RawSamples(fields, params) ==
    IF "DATA_PREPROCESS" \in params.flags
    THEN <<Head(fields)>>
         \o [i \in 1..(Len(fields) - 1) |->
                Reconstructed(ReferenceValue(Head(fields), params), Tail(fields), params)[i]
                    % Pow2(params.bits_per_sample)]
    ELSE fields

\* C26: an Uncompressed block without PREPROCESS decodes to its J raw n-bit
\* fields in order; with PREPROCESS, at the start of an RSI, its first field
\* is the reference: sign-extended if DATA_SIGNED, written unchanged as the
\* first sample, and the predictor of the next coded value. In decode_into
\* and in the streaming Decoder.
C26_UncompressedBlock ==
    (inp.kind = "uncompressed" /\ ret # NoReturn) =>
        /\ ret.err = OK
        /\ Samples(sink, inp.params) = RawSamples(inp.args, inp.params)

\* A block with DATA_SIGNED and PREPROCESS whose reference is negative has
\* been decoded.
C26_Witness ==
    /\ inp.kind = "uncompressed"
    /\ {"DATA_SIGNED", "DATA_PREPROCESS"} \subseteq inp.params.flags
    /\ ReferenceValue(inp.args[1], inp.params) < 0
    /\ ret # NoReturn
    /\ Len(sink) = 8

\* C27: the Second Extension symbol m in 0..=90 gives the pair (s - k, k)
\* with 0 <= k <= s <= 12 and m = s(s+1)/2 + k: the pair (a, b) that decode_into
\* and the streaming Decoder give has a + b <= 12 and gives m back as
\* (a+b)(a+b+1)/2 + b, so that no two symbols share a pair; a symbol m > 90
\* makes the decoding fail with InvalidInput.
C27_SecondExtensionPair ==
    (inp.kind = "second_extension" /\ ret # NoReturn) =>
        \E m \in {inp.args[1]} :
            IF m <= 90
            THEN /\ ret.err = OK
                 /\ Len(sink) = 8
                 /\ sink[1] + sink[2] <= 12
                 /\ ((sink[1] + sink[2]) * (sink[1] + sink[2] + 1)) \div 2 + sink[2] = m
            ELSE ret.err = InvalidInput("Second Extension unary symbol too large")

\* The block of symbol 77 = 11 * 12 / 2 + 11 has been decoded to (0, 11).
C27_Witness ==
    /\ inp.kind = "second_extension" /\ inp.args = <<77>>
    /\ ret # NoReturn
    /\ SubSeq(sink, 1, 2) = <<0, 11>>

\* C28: a Rice split quotient q whose shifted value q * 2^k does not fit in
\* 32 bits, q >= 2^(32 - k), makes decode_into and the streaming Decoder fail
\* with InvalidInput: no sample comes from a truncated shift.
C28_RiceShiftOverflow ==
    (inp.kind = "rice_shift" /\ ret # NoReturn
     /\ inp.args[2] >= Pow2(32 - inp.args[1])) =>
        ret.err = InvalidInput("rice shift overflow")

\* C29: decode_into reports the end of the input, at whichever read it comes
\* (block id, selector, reference, zero-run symbol, Second Extension symbol,
\* Rice quotient, Rice remainder, raw sample), as UnexpectedEofDuringDecode;
\* it never returns the bare UnexpectedEof.
C29_EofDuringDecode ==
    OneShotReturned =>
        /\ ret.err # UnexpectedEof
        /\ inp.kind = "eof" => ret.err = UnexpectedEofDuringDecode

\* The Decoder stands at the first sample of an RSI whose reference it has
\* not yet emitted: at block 0 of the RSI, with every decoded sample
\* delivered.
AtRsiStart ==
    /\ dec.block_index_within_rsi = 0
    /\ dec.pending_pos >= Len(dec.pending)
    /\ ~is_some(dec.pending_repeat)

-----------------------------------------------------------------------------
(* The block boundaries of a payload: the sample counts and bit positions   *)
(* at which a Decoder that holds the whole payload, and whose output is     *)
(* taken as fast as it is produced, stands after each decode_next_unit.     *)

\* The decoder d after its pending bytes and its pending repeat were taken.
Drained(d) ==
    Bind(d.output_samples * d.bytes_per_sample + 1, LAMBDA room :
    flush_repeat(flush_pending(d, room, 0).d, room, 0).d)

\* The pairs <<samples, bits>> after each unit that d completes.
RECURSIVE UnitMarks(_)
UnitMarks(d) ==
    IF loop_finished(d) THEN {}
    ELSE Bind(decode_next_unit(d), LAMBDA unit :
         IF unit.err # OK THEN {}
         ELSE Bind(Drained(unit.d), LAMBDA e :
              {<<e.samples_written, bits_read_total(e.reader)>>} \cup UnitMarks(e)))

BlockMarks ==
    {<<0, 0>>}
    \cup UnitMarks(push_input(Decoder_new(inp.params, inp.output_samples), inp.payload))

\* The last call of decode returned Ok with some status.
ReturnedOk == ret # NoReturn /\ ret.err = OK

C32_SamplesWrittenMonotone ==
    /\ [](dec.samples_written <= inp.output_samples)
    /\ [][dec'.samples_written >= dec.samples_written]_vars

\* decode returned NeedInput after a block was completed, and the rollback
\* took back samples that the failed attempt had already counted.
C32_Witness ==
    /\ Returned("NeedInput")
    /\ dec.samples_written > 0
    /\ is_some(attempt)
    /\ decode_next_unit(attempt[1]).d.samples_written > dec.samples_written

\* The bytes of one block: bytes_per_sample * block_size.
BlockBytes == dec.bytes_per_sample * inp.params.block_size

\* C33: in every state of a decoder that has not failed the pending buffer
\* holds at most B * J bytes, a pending repeat is a pair (coded_value = 0,
\* remaining > 0), and the bytes produced so far, delivered or pending, are
\* those of the samples_written samples: no sample of the rest of a run
\* exists as bytes before it is written to the caller's buffer.
C33_RunNeverMaterialised ==
    ret.err = OK =>
        /\ Len(dec.pending) <= BlockBytes
        /\ dec.pending_pos <= Len(dec.pending)
        /\ is_some(dec.pending_repeat) =>
               /\ dec.pending_repeat[1].coded_value = 0
               /\ dec.pending_repeat[1].remaining > 0
        /\ Len(sink) + (Len(dec.pending) - dec.pending_pos)
               = dec.samples_written * dec.bytes_per_sample

\* decode returned with a run pending whose samples, as bytes, would not fit in
\* the pending buffer.
C33_Witness ==
    /\ ReturnedOk
    /\ is_some(dec.pending_repeat)
    /\ dec.pending_repeat[1].remaining * dec.bytes_per_sample > BlockBytes

-----------------------------------------------------------------------------
(* The primitives on their own.  The predictor step of the inverse          *)
(* preprocessor, applied to every in-range predictor and every coded value  *)
(* of a sample width; and a BitReader over a byte slice next to a           *)
(* StreamBitReader that was pushed the same bytes, given the same reads and *)
(* alignments, the StreamBitReader being compacted in between.              *)

\* The widest sample of the predictor steps.
MaxStepBits == 4

\* The most bits of one read.
MaxReadBits == 10

\* The representable samples of params: [0, 2^n - 1] unsigned,
\* [-2^(n-1), 2^(n-1) - 1] signed.
SampleRange(params) ==
    IF "DATA_SIGNED" \in params.flags
    THEN (0 - Pow2(params.bits_per_sample - 1))..(Pow2(params.bits_per_sample - 1) - 1)
    ELSE 0..(Pow2(params.bits_per_sample) - 1)

\* The coded values of params: [0, 2^n - 1].
CodedValues(params) == 0..(Pow2(params.bits_per_sample) - 1)

StepInputs ==
    { [kind |-> "step", params |-> AecParams_new(n, 8, 2, {"DATA_PREPROCESS"} \cup sign),
       data |-> <<>>] :
        n \in 1..MaxStepBits, sign \in {{}, {"DATA_SIGNED"}} }

\* The bytes of the tests of bitreader.rs.
ReaderBytes == {172, 81, 255, 18}

ReaderInputs ==
    { [kind |-> "reader", params |-> ParamsByte, data |-> <<b1, b2, b3>>] :
        b1 \in ReaderBytes, b2 \in ReaderBytes, b3 \in ReaderBytes }

FnInputs == StepInputs \cup ReaderInputs

FnReturn(call, args, value) == [call |-> call, args |-> args, value |-> value]

\* BitReader::new(data) and a StreamBitReader pushed data; for the predictor
\* steps, a predictor that holds a reference sample.
FnStart(i) ==
    { [predictor_x |-> x, bit_pos |-> 0,
       reader |-> StreamBitReader_push(StreamBitReader_new, i.data)] :
        x \in IF i.kind = "step" THEN SampleRange(i.params) ELSE {0} }

FnInit ==
    /\ inp \in FnInputs
    /\ dec \in FnStart(inp)
    /\ pushed = 0
    /\ sink = <<>>
    /\ ret = FnReturn("", <<>>, 0)
    /\ attempt = None

\* x_next = inverse_preprocess_step(x_prev, d, params); predictor_x = Some(x_next).
InversePreprocessStep(d) ==
    /\ inp.kind = "step"
    /\ \E x_next \in {inverse_preprocess_step(dec.predictor_x, d, inp.params)} :
           /\ dec' = [dec EXCEPT !.predictor_x = x_next]
           /\ ret' = FnReturn("inverse_preprocess_step", <<dec.predictor_x, d>>, x_next)
    /\ UNCHANGED <<inp, pushed, sink, attempt>>

\* The last read failed: its caller returns the error.
ReadFailed == ret.call = "read_bits_u32" /\ ret.value.err # OK

\* read_bits_u32(nbits) on both readers.
ReadBits(nbits) ==
    /\ inp.kind = "reader"
    /\ ~ReadFailed
    /\ \E r \in {BitReader_read_bits_u32(inp.data, dec.bit_pos, nbits)},
          s \in {StreamBitReader_read_bits_u32(dec.reader, nbits)} :
           /\ dec' = [dec EXCEPT !.bit_pos = r.bit_pos, !.reader = s.reader]
           /\ ret' = FnReturn("read_bits_u32", <<dec.bit_pos, nbits, dec.reader>>,
                              [err |-> r.err, val |-> r.val,
                               stream_err |-> s.err, stream_val |-> s.val])
    /\ UNCHANGED <<inp, pushed, sink, attempt>>

\* align_to_byte() on both readers.
AlignToByte ==
    /\ inp.kind = "reader"
    /\ ~ReadFailed
    /\ dec' = [dec EXCEPT !.bit_pos = align_to_byte(@),
                          !.reader = StreamBitReader_align_to_byte(@)]
    /\ ret' = FnReturn("align_to_byte", <<dec.bit_pos, dec.reader>>, 0)
    /\ UNCHANGED <<inp, pushed, sink, attempt>>

\* compact_consumed_bytes() on the StreamBitReader.
Compact ==
    /\ inp.kind = "reader"
    /\ ~ReadFailed
    /\ \E c \in {compact_consumed_bytes(dec.reader)} :
           /\ dec' = [dec EXCEPT !.reader = c.reader]
           /\ ret' = FnReturn("compact_consumed_bytes", <<dec.bit_pos, dec.reader>>, c.bytes)
    /\ UNCHANGED <<inp, pushed, sink, attempt>>

FnNext ==
    \/ \E d \in CodedValues(inp.params) : InversePreprocessStep(d)
    \/ \E nbits \in 0..MaxReadBits : ReadBits(nbits)
    \/ AlignToByte
    \/ Compact

FnSpec == FnInit /\ [][FnNext]_vars

\* C34: with PREPROCESS on, inverse_preprocess_step(x, d) of an in-range
\* predictor x and a coded value d of [0, 2^n - 1] is a representable sample,
\* and no other coded value of [0, 2^n - 1] gives the same sample from x: the
\* 2^n coded values map one-to-one onto the 2^n representable samples.
C34_StepIsBijection ==
    ret.call = "inverse_preprocess_step" =>
        /\ ret.args[1] \in SampleRange(inp.params)
        /\ ret.value \in SampleRange(inp.params)
        /\ \A d2 \in CodedValues(inp.params) \ {ret.args[2]} :
               inverse_preprocess_step(ret.args[1], d2, inp.params) # ret.value
        /\ Cardinality(CodedValues(inp.params)) = Cardinality(SampleRange(inp.params))

\* A step whose delta would have crossed the range and was reflected.
C34_Witness ==
    /\ ret.call = "inverse_preprocess_step"
    /\ ret.value # ret.args[1] + (IF ret.args[2] % 2 = 0 THEN ret.args[2] \div 2
                                  ELSE 0 - ((ret.args[2] + 1) \div 2))

\* Bit i of data, MSB-first: (data[i / 8] >> (7 - i % 8)) & 1.
BitAt(data, i) == (data[(i \div 8) + 1] \div Pow2(7 - (i % 8))) % 2

\* The k bits of data from bit p on, the first of them the most significant.
RECURSIVE BitsValue(_, _, _)
BitsValue(data, p, k) ==
    IF k = 0 THEN 0 ELSE 2 * BitsValue(data, p, k - 1) + BitAt(data, p + k - 1)

\* C35: a read of k bits at bit p of the data fails on both readers or on
\* neither, and succeeds if the data has k more bits; when it succeeds it
\* returns, on both readers, the k bits from p on, MSB-first, with both cursors
\* at p + k (0 and no advance for k = 0); and for every a + b = k, a read of a
\* bits followed by a read of b bits returns, on both readers, values va and
\* vb with va * 2^b + vb the value of the one read, and leaves the same cursor.
C35_ReadBitsMsbFirst ==
    ret.call = "read_bits_u32" =>
        \E p \in {ret.args[1]}, k \in {ret.args[2]}, before \in {ret.args[3]} :
            /\ ret.value.stream_err = ret.value.err
            /\ p + k <= 8 * Len(inp.data) => ret.value.err = OK
            /\ ret.value.err = OK =>
                   /\ ret.value.val = BitsValue(inp.data, p, k)
                   /\ ret.value.stream_val = ret.value.val
                   /\ dec.bit_pos = p + k
                   /\ bits_read_total(dec.reader) = p + k
                   /\ \A a \in 0..k :
                          \E ra \in {BitReader_read_bits_u32(inp.data, p, a)},
                             sa \in {StreamBitReader_read_bits_u32(before, a)} :
                          \E rb \in {BitReader_read_bits_u32(inp.data, ra.bit_pos, k - a)},
                             sb \in {StreamBitReader_read_bits_u32(sa.reader, k - a)} :
                              /\ ra.err = OK /\ rb.err = OK /\ sa.err = OK /\ sb.err = OK
                              /\ ra.val * Pow2(k - a) + rb.val = ret.value.val
                              /\ sa.val = ra.val /\ sb.val = rb.val
                              /\ rb.bit_pos = dec.bit_pos
                              /\ sb.reader = dec.reader

\* A read that started inside one byte, ended inside the next, and was made
\* on a StreamBitReader that had dropped its consumed bytes.
C35_Witness ==
    /\ ret.call = "read_bits_u32"
    /\ ret.value.err = OK
    /\ ret.args[1] % 8 # 0
    /\ (ret.args[1] + ret.args[2]) % 8 # 0
    /\ (ret.args[1] + ret.args[2]) \div 8 > ret.args[1] \div 8
    /\ ret.args[3].total_bytes_dropped > 0

\* C36: align_to_byte leaves both cursors at the smallest multiple of 8 that
\* is not below the position p they had: it skips at most 7 bits, stays within
\* the buffered bytes, leaves an aligned cursor where it was, and a second
\* align_to_byte changes nothing.
C36_AlignToByte ==
    ret.call = "align_to_byte" =>
        \E p \in {ret.args[1]}, before \in {ret.args[2]} :
            /\ dec.bit_pos % 8 = 0
            /\ dec.bit_pos >= p
            /\ dec.bit_pos - p <= 7
            /\ \A m \in p..dec.bit_pos : m % 8 = 0 => m = dec.bit_pos
            /\ dec.bit_pos <= 8 * Len(inp.data)
            /\ p % 8 = 0 => dec.bit_pos = p
            /\ align_to_byte(dec.bit_pos) = dec.bit_pos
            /\ bits_read_total(dec.reader) = dec.bit_pos
            /\ dec.reader.bit_pos <= 8 * Len(dec.reader.buf)
            /\ dec.reader = [before EXCEPT !.bit_pos = @ + (dec.bit_pos - p)]
            /\ StreamBitReader_align_to_byte(dec.reader) = dec.reader

\* align_to_byte skipped bits of a byte that a read had entered.
C36_Witness ==
    /\ ret.call = "align_to_byte"
    /\ ret.args[1] % 8 # 0
    /\ dec.bit_pos > ret.args[1]
    /\ ret.args[2].total_bytes_dropped > 0

\* C37: in every state of the decoder (after each push_input and after each
\* decode, whatever it returned) total_in() + avail_in() is the number of bytes
\* pushed, total_in() is the number of bytes the reader has dropped, and the
\* reader is the reader that holds all the pushed bytes, stands at the same
\* absolute bit position and has been compacted once: its buffer is the pushed
\* bytes after the dropped ones and its cursor is inside the first of them.
C37_InputAccounting ==
    /\ total_in(dec) + avail_in(dec) = pushed
    /\ total_in(dec) = dec.reader.total_bytes_dropped
    /\ dec.reader.buf = SubSeq(inp.payload, dec.reader.total_bytes_dropped + 1, pushed)
    /\ dec.reader =
           compact_consumed_bytes([buf |-> SubSeq(inp.payload, 1, pushed),
                                   bit_pos |-> bits_read_total(dec.reader),
                                   total_bytes_dropped |-> 0]).reader

\* decode returned NeedInput with bytes dropped, the cursor inside a byte and
\* more bytes buffered behind it.
C37_Witness ==
    /\ Returned("NeedInput")
    /\ total_in(dec) > 0
    /\ dec.reader.bit_pos > 0
    /\ avail_in(dec) > 1

\* C38: with PREPROCESS on, no call of decode returns
\* InvalidInput("missing reference sample"), and the predictor holds a value
\* whenever the decoder stands inside an RSI or has a zero-run pending, also
\* when the run has wrapped block_index_within_rsi to 0.
C38_ReferenceNeverMissing ==
    "DATA_PREPROCESS" \in inp.params.flags =>
        /\ ret.err # InvalidInput("missing reference sample")
        /\ is_some(dec.pending_repeat) => is_some(dec.predictor_x)
        /\ dec.block_index_within_rsi # 0 => is_some(dec.predictor_x)
        /\ is_some(attempt) =>
               decode_next_unit(attempt[1]).err # InvalidInput("missing reference sample")

\* A zero-run that wrapped block_index_within_rsi to 0 is pending after more
\* of its samples were written than one small buffer holds.
C38_Witness ==
    /\ "DATA_PREPROCESS" \in inp.params.flags
    /\ ReturnedOk
    /\ is_some(dec.pending_repeat)
    /\ dec.block_index_within_rsi = 0
    /\ dec.samples_written * dec.bytes_per_sample > MaxOutLen + dec.bytes_per_sample

-----------------------------------------------------------------------------
(* The caller that gives every decode a buffer of at least the whole        *)
(* output: it pushes the payload in chunks of 1 to MaxChunk bytes, or whole, *)
(* and decodes between the pushes.                                          *)

FullLens == {ExpectedLen, ExpectedLen + 1}

ChunkNext ==
    \/ \E k \in (1..MaxChunk) \cup {Len(inp.payload)} : PushInput(k)
    \/ \E out_len \in FullLens, flush \in {"NoFlush", "Flush"} : Decode(out_len, flush)

ChunkSpec == Init /\ [][ChunkNext]_vars

\* C39: with buffers of at least output_samples * B bytes, whatever the chunks
\* of the pushes and wherever decode was called between them, the bytes
\* returned so far are the first bytes of the output of a single push and a
\* single decode, and all of it once decode has returned NeedOutput or
\* Finished.
C39_ChunksDoNotMatter ==
    ret.err = OK =>
        \E whole \in {SinglePass(inp)} :
            /\ Len(sink) <= Len(whole)
            /\ sink = SubSeq(whole, 1, Len(sink))
            /\ ret.status \in {"NeedOutput", "Finished"} => sink = whole

\* decode returned NeedInput from inside a block, of which it had read buffered
\* bits, after the blocks before it were output.
C39_Witness ==
    /\ Returned("NeedInput")
    /\ Len(sink) > 0
    /\ is_some(attempt)
    /\ bits_read_total(decode_next_unit(attempt[1]).d.reader) > bits_read_total(dec.reader)

====
